---- MODULE Spec2Model ----
(***************************************************************************)
(* Process-and-log supervisor of autodebug-mcp2: the tool dispatcher       *)
(* (tools.go), the process manager with its four background goroutines    *)
(* per child, the readiness waiter and the port reaper.                    *)
(*                                                                         *)
(* Time is abstract.  The deadline of the readiness wait may pass at any   *)
(* moment.  A bounded wait for a goroutine (waitDone or 3 s, logWg or 1 s) *)
(* is modelled under the variable `timely`: when it is TRUE the timer      *)
(* only expires if the awaited goroutine is blocked on something outside   *)
(* the supervisor (a child that does not die); when it is FALSE the timer  *)
(* may expire at any moment, whatever the goroutines are doing.            *)
(***************************************************************************)
EXTENDS Integers, Sequences, FiniteSets, TLC

\* ------------------------------------------------------------------ bounds
MaxChildren == 2      \* children spawned over one run
MaxLines    == 1      \* log lines the children write over one run
MaxFloodLines == 2    \* log lines of a run that fills the log channel
MaxWindowLines == 2   \* log lines of a run in which time passes
maxLogLines == 2      \* slots of the ring of recent lines
MaxTime     == 7      \* last instant of a run in which time passes
MaxRingLines == 3     \* log lines of a run that overwrites the ring
MaxRingTime == 3      \* last instant of a run that overwrites the ring
StartTimeout == 4     \* timeout_seconds of the start_process calls, in 500 ms
MaxCancelTime == 6    \* last instant of a run in which the server is cancelled
MaxCutTime == 6       \* last instant of a run with a late request
MaxNetstatLines == 3  \* lines of a netstat output

\* durations, in units of 500 ms
HalfSecond  == 1
OneSecond   == 2
TwoSeconds  == 4
LogChanCap  == 1      \* slots of logChan (1000 in the source, scaled down)
MaxLogChildren == 1   \* children spawned over a run in which children write

\* ------------------------------------------------------- program constants
HealthPort == 18080   \* port of an explicit-port health URL
HttpPort   == 80      \* port behind a URL whose port cannot be extracted

Handlers == {1, 2}   \* handler goroutines that can be past the acquire at once
Kids     == 1..MaxChildren
Names    == {"svc"}
Streams  == {"out", "err"}

\* command strings, as sequences of characters
Commands == { <<"g", "o">>, <<"g", " ", "r">>, <<"g", "\t", "r">> }

\* health_check_url shapes: "tcp" carries an explicit port (http://localhost:18080/health),
\* "http" is a URL whose port extraction fails (http://[::1]/health), so the
\* supervisor records port 0 and probes the URL over HTTP.
UrlKinds == {"tcp", "http"}

\* HTTP statuses a health endpoint may answer with
Statuses == {199, 200, 299, 300, 503}

StartTools  == {"start_process"}
MemoryTools == {"save_memory", "read_memory", "save_knowledge", "search_knowledge"}
Tools == {"start_process", "request_with_logs", "kill_process"} \cup MemoryTools

VARIABLES
    toolSemaphore,  \* tokens in the semaphore channel (capacity 1)
    hs,             \* per handler goroutine: its position and locals
    processes,      \* the registry: name -> child id, 0 when absent
    nextChild,      \* id the next spawned child gets
    windows,        \* os.Getenv("OS") contains "windows"
    timely,         \* runnable goroutines finish before a bounded wait expires
    squatter,       \* a foreign process listens on HealthPort
    cname,          \* child -> Name
    ckind,          \* child -> shape of its HealthCheckURL
    os,             \* child -> "unborn" | "running" | "dead"
    exitErr,        \* child -> "none" | "nil" | "err": what Cmd.Wait returns
    listening,      \* child -> its process tree listens on its service port
    viaTree,        \* child -> the listener is a descendant that outlives it
    emitted,        \* child -> number of lines written so far
    pipe,           \* child -> stream -> lines written and not yet read
    pipesClosed,    \* child -> the parent's read ends are closed
    rpc,            \* child -> stream -> reader position
    rline,          \* child -> stream -> line the reader holds
    logChan,        \* child -> queued lines
    logChanClosed,  \* child -> logChanClosed flag (set with close(logChan))
    LogBuffer,      \* child -> combined log
    dropped,        \* child -> lines dropped because logChan was full
    mpc,            \* child -> processLogs position
    wpc,            \* child -> monitorProcessExit position
    waitCalls,      \* child -> number of Cmd.Wait invocations
    waitDone,       \* child -> waitDone is closed
    ExitChan,       \* child -> "empty" | "nil" | "err"
    killSent,       \* child -> KillProcess cancelled and signalled it
    graceElapsed,   \* child -> a bounded wait for waitDone timed out
    toolKilled,     \* child -> a kill_process call has completed KillProcess on it
    now,            \* time.Now(), in units of 500 ms; 0 is the zero time
    logLines,       \* child -> ring slot -> line
    logTimes,       \* child -> ring slot -> time the line was recorded
    logIndex,       \* child -> slot the next line goes to
    served,         \* the last request log returned: its lines, and when
    origin,         \* child -> line -> the stream the child wrote it to
    closes,         \* child -> number of close(logChan) calls made
    cancelled,      \* the root context of the server is cancelled
    crashed         \* the supervisor died of an unrecovered panic

procVars == <<cname, ckind, os, exitErr, listening, viaTree, emitted, pipe,
              pipesClosed>>
logVars  == <<rpc, rline, logChan, logChanClosed, LogBuffer, dropped, mpc>>
exitVars == <<wpc, waitCalls, waitDone, ExitChan>>
killVars == <<killSent, graceElapsed, toolKilled>>
envVars  == <<windows, timely, squatter>>
ringVars == <<logLines, logTimes, logIndex>>
timeVars == <<now, ringVars, served, origin, closes, cancelled>>
vars == <<toolSemaphore, hs, processes, nextChild, envVars, procVars, logVars,
          exitVars, killVars, timeVars, crashed>>

\* ---------------------------------------------------------------- helpers
IsPrefix(a, b) == Len(a) <= Len(b) /\ \A i \in DOMAIN a : a[i] = b[i]

\* mutant: only a leading space is seen
ContainsSpace_LeadingOnly(cmd) == cmd # <<>> /\ cmd[1] = " "

\* strings.Contains(args.Command, " ")
ContainsSpace(cmd) == \E i \in DOMAIN cmd : cmd[i] = " "

\* extractPortFromURL: the port, or 0 with an error
extractPortFromURL(kind) == IF kind = "tcp" THEN HealthPort ELSE 0

\* the port the service behind the URL really listens on
ServicePort(kind) == IF kind = "tcp" THEN HealthPort ELSE HttpPort

\* resp.StatusCode >= 200 && resp.StatusCode < 300
StatusReady(status) == status >= 200 /\ status < 300

ChildListens(p) == \E c \in Kids : listening[c] /\ ServicePort(ckind[c]) = p

\* isPortInUse: a TCP connect to 127.0.0.1:port succeeds
isPortInUse(p) == (p = HealthPort /\ squatter) \/ ChildListens(p)

Spawned(c) == os[c] # "unborn"

IdleHandler ==
    [pc |-> "wait", tool |-> "none", name |-> "", cmd |-> <<>>, kind |-> "tcp",
     port |-> 0, info |-> 0, old |-> 0, target |-> 0, after |-> "none",
     err |-> "none", result |-> "none", log |-> <<>>, answered |-> "none",
     status |-> 0, mark |-> 0, squat |-> FALSE, reaped |-> FALSE,
     outcome |-> "none", requestStartTime |-> 0, endTime |-> 0,
     responseBody |-> "none", url |-> <<>>, fullURL |-> <<>>,
     env |-> {}, childEnv |-> {}, deadline |-> 0, netstat |-> <<>>,
     pids |-> <<>>]

\* the state after construction; t says whether the runs are timely
InitTimely(t) ==
    /\ toolSemaphore = 1
    /\ hs = [h \in Handlers |-> IdleHandler]
    /\ processes = [n \in Names |-> 0]
    /\ nextChild = 1
    /\ windows \in BOOLEAN
    /\ timely = t
    /\ squatter \in BOOLEAN
    /\ cname = [c \in Kids |-> ""]
    /\ ckind = [c \in Kids |-> "tcp"]
    /\ os = [c \in Kids |-> "unborn"]
    /\ exitErr = [c \in Kids |-> "none"]
    /\ listening = [c \in Kids |-> FALSE]
    /\ viaTree = [c \in Kids |-> FALSE]
    /\ emitted = [c \in Kids |-> 0]
    /\ pipe = [c \in Kids |-> [s \in Streams |-> <<>>]]
    /\ pipesClosed = [c \in Kids |-> FALSE]
    /\ rpc = [c \in Kids |-> [s \in Streams |-> "off"]]
    /\ rline = [c \in Kids |-> [s \in Streams |-> 0]]
    /\ logChan = [c \in Kids |-> <<>>]
    /\ logChanClosed = [c \in Kids |-> FALSE]
    /\ LogBuffer = [c \in Kids |-> <<>>]
    /\ dropped = [c \in Kids |-> {}]
    /\ mpc = [c \in Kids |-> "off"]
    /\ wpc = [c \in Kids |-> "off"]
    /\ waitCalls = [c \in Kids |-> 0]
    /\ waitDone = [c \in Kids |-> FALSE]
    /\ ExitChan = [c \in Kids |-> "empty"]
    /\ killSent = [c \in Kids |-> FALSE]
    /\ graceElapsed = [c \in Kids |-> FALSE]
    /\ toolKilled = [c \in Kids |-> FALSE]
    /\ now = 1
    /\ logLines = [c \in Kids |-> [i \in 0..(maxLogLines - 1) |-> 0]]
    /\ logTimes = [c \in Kids |-> [i \in 0..(maxLogLines - 1) |-> 0]]
    /\ logIndex = [c \in Kids |-> 0]
    /\ served = [lines |-> {}, at |-> 0]
    /\ origin = [c \in Kids |-> <<>>]
    /\ closes = [c \in Kids |-> 0]
    /\ cancelled = FALSE
    /\ crashed = FALSE

Init == InitTimely(TRUE)

\* ------------------------------------------------------ the child process
\* the child writes one more line to stdout or stderr
TotalEmitted == LET RECURSIVE Sum(_)
                    Sum(k) == IF k = 0 THEN 0 ELSE emitted[k] + Sum(k - 1)
                IN  Sum(MaxChildren)

ChildEmit(c, s, budget) ==
    /\ ~crashed
    /\ os[c] = "running" /\ ~pipesClosed[c] /\ ~killSent[c]
    /\ TotalEmitted < budget
    /\ emitted' = [emitted EXCEPT ![c] = @ + 1]
    /\ pipe' = [pipe EXCEPT ![c][s] = Append(@, emitted[c] + 1)]
    /\ origin' = [origin EXCEPT ![c] = Append(@, s)]
    /\ UNCHANGED <<now, ringVars, served, closes, cancelled>>
    /\ UNCHANGED <<toolSemaphore, hs, processes, nextChild, envVars, cname, ckind,
                   viaTree,
                   os, exitErr, listening, pipesClosed, logVars, exitVars,
                   killVars, crashed>>

\* the child binds its service port (bind is exclusive), itself or through
\* a descendant (`go run` starts the server as its own child); `trees` says
\* which of the two a run allows
ChildListen(c, trees) ==
    /\ ~crashed
    /\ os[c] = "running" /\ ~listening[c] /\ ~killSent[c]
    /\ ~isPortInUse(ServicePort(ckind[c]))
    /\ listening' = [listening EXCEPT ![c] = TRUE]
    /\ \E d \in trees : viaTree' = [viaTree EXCEPT ![c] = d]
    /\ UNCHANGED timeVars
    /\ UNCHANGED <<toolSemaphore, hs, processes, nextChild, envVars, cname, ckind,
                   os, exitErr, emitted, pipe, pipesClosed, logVars, exitVars,
                   killVars, crashed>>

\* the child exits on its own, cleanly or with a non-zero status; a child
\* that outlived its kill signal can only die of it
ChildExit(c, e) ==
    /\ ~crashed
    /\ os[c] = "running"
    /\ killSent[c] => e = "err"
    /\ os' = [os EXCEPT ![c] = "dead"]
    /\ exitErr' = [exitErr EXCEPT ![c] = e]
    /\ listening' = [listening EXCEPT ![c] = @ /\ viaTree[c]]
    /\ UNCHANGED timeVars
    /\ UNCHANGED <<toolSemaphore, hs, processes, nextChild, envVars, cname, ckind,
                   viaTree,
                   emitted, pipe, pipesClosed, logVars, exitVars, killVars,
                   crashed>>

\* the children of KS are killed, the listeners in the trees of HS are killed,
\* the foreign listeners of ports SP are killed
ProcEffect(KS, HS, SP) ==
    /\ os' = [k \in Kids |-> IF k \in KS /\ os[k] = "running" THEN "dead" ELSE os[k]]
    /\ exitErr' = [k \in Kids |->
                     IF k \in KS /\ os[k] = "running" THEN "err" ELSE exitErr[k]]
    /\ listening' = [k \in Kids |->
                       /\ listening[k]
                       /\ k \notin HS
                       /\ ~(k \in KS /\ ~viaTree[k])]
    /\ squatter' = (squatter /\ HealthPort \notin SP)

\* ------------------------------------------------------- port reaper
\* what killProcessByPort can come to on port p
ReapOutcomes(p) ==
    IF ~isPortInUse(p) THEN {"notInUse"}
    ELSE {"netstatFail", "noPid", "killed", "killFailed"}

\* killProcessByPort returns nil
ReapOk(outcome) == outcome \in {"killed", "killFailed"}

\* the children in whose tree kill -9 reaches the listener when the reaper
\* runs on p with this outcome
ReapKids(p, outcome) ==
    IF outcome = "killed"
    THEN {k \in Kids : listening[k] /\ ServicePort(ckind[k]) = p}
    ELSE {}

\* those of them that are the listener themselves
ReapSelf(p, outcome) == {k \in ReapKids(p, outcome) : ~viaTree[k]}

ReapPorts(p, outcome) == IF outcome = "killed" THEN {p} ELSE {}

\* mutant: the reader takes the line written last
ReadString_Newest(p) ==
    [line |-> p[Len(p)], rest |-> SubSeq(p, 1, Len(p) - 1)]

\* scanner.ReadString('\n'): the oldest unread line leaves the pipe
ReadString(p) == [line |-> Head(p), rest |-> Tail(p)]

\* ------------------------------------------ collectStdout / collectStderr
\* ReadString('\n'): a line, EOF once the child is gone, or an error on a
\* closed pipe (lines bufio already holds may still come out); a line read
\* is offered unless logChanClosed is seen set (read under logChanMu)
ReaderRead(c, s) ==
    /\ ~crashed
    /\ rpc[c][s] = "read"
    /\ \/ /\ pipe[c][s] # <<>>
          /\ rline' = [rline EXCEPT ![c][s] = ReadString(pipe[c][s]).line]
          /\ pipe' = [pipe EXCEPT ![c][s] = ReadString(@).rest]
          /\ rpc' = [rpc EXCEPT ![c][s] = IF logChanClosed[c] THEN "done" ELSE "send"]
       \/ /\ pipesClosed[c] \/ (pipe[c][s] = <<>> /\ os[c] = "dead")
          /\ rpc' = [rpc EXCEPT ![c][s] = "done"]
          /\ UNCHANGED <<rline, pipe>>
    /\ UNCHANGED timeVars
    /\ UNCHANGED <<toolSemaphore, hs, processes, nextChild, envVars, cname, ckind,
                   viaTree,
                   os, exitErr, listening, emitted, pipesClosed, logChan,
                   logChanClosed, LogBuffer, dropped, mpc, exitVars, killVars,
                   crashed>>

\* a blocking send: the select without its default arm
SelectHasDefault_Blocking == FALSE

\* the select that offers a line to logChan has a default arm
SelectHasDefault == TRUE

\* select { case info.logChan <- line: default: }
ReaderSend(c, s) ==
    /\ ~crashed
    /\ rpc[c][s] = "send"
    /\ SelectHasDefault \/ logChanClosed[c] \/ Len(logChan[c]) < LogChanCap
    /\ rpc' = [rpc EXCEPT ![c][s] = "read"]
    /\ IF logChanClosed[c]
       THEN /\ crashed' = TRUE      \* send on closed channel
            /\ UNCHANGED <<logChan, dropped>>
       ELSE /\ IF Len(logChan[c]) < LogChanCap
               THEN /\ logChan' = [logChan EXCEPT ![c] = Append(@, rline[c][s])]
                    /\ UNCHANGED dropped
               ELSE /\ dropped' = [dropped EXCEPT ![c] = @ \cup {rline[c][s]}]
                    /\ UNCHANGED logChan
            /\ UNCHANGED crashed
    /\ UNCHANGED timeVars
    /\ UNCHANGED <<toolSemaphore, hs, processes, nextChild, envVars, procVars,
                   rline, logChanClosed, LogBuffer, mpc, exitVars, killVars>>

\* ------------------------------------------------------------ processLogs
\* mutant: the index runs on past the last slot
NextIndex_NoWrap(i) == i + 1

\* (info.logIndex + 1) % info.maxLogLines
NextIndex(i) == (i + 1) % maxLogLines

\* mutant: the merge writer looks its child's name up in the registry
MergeTarget_ByName(c) ==
    IF processes[cname[c]] # 0 THEN processes[cname[c]] ELSE c

\* the ProcessInfo processLogs writes to: the one it was started with
MergeTarget(c) == c

\* one iteration of `for line := range info.logChan`: the line goes to the
\* combined log and, with the time, to the ring
MergeWrite(c) ==
    /\ ~crashed
    /\ mpc[c] = "run"
    /\ logChan[c] # <<>>
    /\ LET t == MergeTarget(c) IN
       /\ LogBuffer' = [LogBuffer EXCEPT ![t] = Append(@, Head(logChan[c]))]
       /\ logLines' = [logLines EXCEPT ![t][logIndex[t]] = Head(logChan[c])]
       /\ logTimes' = [logTimes EXCEPT ![t][logIndex[t]] = now]
       /\ logIndex' = [logIndex EXCEPT ![t] = NextIndex(@)]
    /\ logChan' = [logChan EXCEPT ![c] = Tail(@)]
    /\ UNCHANGED <<now, served, origin, closes, cancelled>>
    /\ UNCHANGED <<toolSemaphore, hs, processes, nextChild, envVars, procVars,
                   rpc, rline, logChanClosed, dropped, mpc, exitVars, killVars,
                   crashed>>

\* mutant: the loop ends as soon as the channel is closed
RangeEnds_OnClose(c) == logChanClosed[c]

\* `for line := range info.logChan` ends: the channel is closed and empty
RangeEnds(c) == logChan[c] = <<>> /\ logChanClosed[c]

\* the range loop ends on the closed, drained channel
MergeExit(c) ==
    /\ ~crashed
    /\ mpc[c] = "run"
    /\ RangeEnds(c)
    /\ mpc' = [mpc EXCEPT ![c] = "done"]
    /\ UNCHANGED timeVars
    /\ UNCHANGED <<toolSemaphore, hs, processes, nextChild, envVars, procVars,
                   rpc, rline, logChan, logChanClosed, LogBuffer, dropped,
                   exitVars, killVars, crashed>>

\* ----------------------------------------------------- monitorProcessExit
\* logWg.Wait() returns: both readers have left their loops
ReadersDone(c) == \A s \in Streams : rpc[c][s] = "done"

\* a bounded wait for the two readers of child c (logWg) can end
LogWgOrTimer(c) == ReadersDone(c) \/ ~timely

\* mutant: the wait for waitDone has no timer
WaitDoneOrTimer_NoTimer(c) == waitDone[c]

\* a bounded wait for waitDone of child c can end: the latch is released, or
\* the timer expires
WaitDoneOrTimer(c) == waitDone[c] \/ os[c] = "running" \/ ~timely

\* err := info.Cmd.Wait(): the one OS wait; it returns once the child is
\* gone and closes the parent's pipe ends; then waitOnce.Do(close(waitDone))
\* and both pipes are closed
WatcherWait(c) ==
    /\ ~crashed
    /\ wpc[c] = "wait"
    /\ os[c] = "dead"
    /\ wpc' = [wpc EXCEPT ![c] = "await"]
    /\ waitCalls' = [waitCalls EXCEPT ![c] = @ + 1]
    /\ waitDone' = [waitDone EXCEPT ![c] = TRUE]
    /\ pipesClosed' = [pipesClosed EXCEPT ![c] = TRUE]
    /\ UNCHANGED timeVars
    /\ UNCHANGED <<toolSemaphore, hs, processes, nextChild, envVars, cname, ckind,
                   viaTree,
                   os, exitErr, listening, emitted, pipe, logVars, ExitChan,
                   killVars, crashed>>

\* mutant: logChan is closed without a look at the flag
CloseGuard_Absent(flag) == TRUE

\* if !info.logChanClosed, under logChanMu
CloseGuard(flag) == ~flag

\* the guarded close of logChan; closing a closed channel panics
CloseLogChan(c) ==
    /\ logChanClosed' = [logChanClosed EXCEPT ![c] = TRUE]
    /\ closes' = [closes EXCEPT ![c] =
                     IF CloseGuard(logChanClosed[c]) THEN @ + 1 ELSE @]
    /\ crashed' = (CloseGuard(logChanClosed[c]) /\ logChanClosed[c])

\* logWg.Wait() or 2 s, then logChan is closed under its guard
WatcherCloseLogChan(c) ==
    /\ ~crashed
    /\ wpc[c] = "await"
    /\ LogWgOrTimer(c)
    /\ wpc' = [wpc EXCEPT ![c] = "deliver"]
    /\ CloseLogChan(c)
    /\ UNCHANGED <<now, ringVars, served, origin, cancelled>>
    /\ UNCHANGED <<toolSemaphore, hs, processes, nextChild, envVars, procVars,
                   rpc, rline, logChan, LogBuffer, dropped, mpc, waitCalls,
                   waitDone, ExitChan, killVars>>

\* mutant: the result is sent before the readers are awaited
WatcherDeliverAt_Early == "await"

\* where monitorProcessExit stands when it sends the wait result
WatcherDeliverAt == "deliver"

\* mutant: an unbuffered ExitChan and a plain send, which waits for the
\* readiness wait of the child to receive
ExitSendBlocks_Unbuffered(c) ==
    ~\E h \in Handlers : hs[h].pc = "ready" /\ hs[h].info = c

\* the send on ExitChan has to wait: never, the channel has a slot of its
\* own and the select a default arm
ExitSendBlocks(c) == FALSE

\* the non-blocking send of the wait result on ExitChan (capacity 1)
WatcherDeliver(c) ==
    /\ ~crashed
    /\ wpc[c] = WatcherDeliverAt
    /\ ~ExitSendBlocks(c)
    /\ wpc' = [wpc EXCEPT ![c] = "done"]
    /\ ExitChan' = [ExitChan EXCEPT ![c] =
                      IF @ = "empty" THEN exitErr[c] ELSE @]
    /\ UNCHANGED timeVars
    /\ UNCHANGED <<toolSemaphore, hs, processes, nextChild, envVars, procVars,
                   logVars, waitCalls, waitDone, killVars, crashed>>

\* ------------------------------------------------------- tool dispatcher
Set(h, r) == hs' = [hs EXCEPT ![h] = r]

\* mutant: the acquire does not block
acquireToolSemaphore_NoBlock == toolSemaphore' = 0

\* <-toolSemaphore: blocks until the token is there, and takes it
acquireToolSemaphore ==
    /\ toolSemaphore = 1
    /\ toolSemaphore' = 0

\* mutant: the release is not deferred, a handler that returns an error
\* leaves without it
releaseToolSemaphore_NotDeferred ==
    /\ toolSemaphore = 0
    /\ toolSemaphore' = IF \E h \in Handlers : hs[h].pc = "ret" /\ hs[h].result # "ok"
                        THEN 0 ELSE 1

\* toolSemaphore <- struct{}{}: blocks while the single slot is full
releaseToolSemaphore ==
    /\ toolSemaphore = 0
    /\ toolSemaphore' = 1

\* ------------------------------------------------------------------ URLs
\* A URL is the sequence of its lexical pieces: "http", "://", a host name,
\* ":", a port, "/", a path segment, "?", a query, "#", a fragment.  A
\* bracketed IPv6 literal is one piece.

\* the health_check_url of each shape
HealthCheckURL(kind) ==
    IF kind = "tcp" THEN <<"http", "://", "localhost", ":", "18080", "/", "health">>
    ELSE <<"http", "://", "[::1]", "/", "health">>

\* the url argument of the calls that do not vary it
DefaultURL == <<"/", "api", "/", "x">>

\* url arguments of request_with_logs
CallerURLs ==
    { DefaultURL,
      <<"api", "/", "x", "?", "q">>,
      <<"http", "://", "example.com", ":", "18080", "/", "api", "?", "q", "#", "f">>,
      <<"http", "://", "127.0.0.1", ":", "18080", "/", "api">>,
      <<"http", "://", "0.0.0.0", ":", "18080">>,
      <<"http", "://", "LOCALHOST", "/", "api">>,
      <<"http", "://", "[::1]", "/", "api", "#", "f">>,
      <<"https", "://", "localhost", "/", "api">>,
      <<"http", "://", "example.com", ":", "9000", "/", "x">> }

\* strings.HasPrefix(u, "http://") || strings.HasPrefix(u, "https://")
HasSchemePrefix(u) ==
    Len(u) >= 2 /\ u[1] \in {"http", "https"} /\ u[2] = "://"

\* index of the first piece of u that is in S, Len(u) + 1 when there is none
FirstIn(u, S) ==
    IF \E i \in DOMAIN u : u[i] \in S
    THEN CHOOSE i \in DOMAIN u : u[i] \in S /\ \A j \in 1..(i - 1) : u[j] \notin S
    ELSE Len(u) + 1

\* url.Parse of a URL with a scheme: Scheme, Host, Path, RawQuery, Fragment
Parse(u) ==
    LET rest  == SubSeq(u, 3, Len(u))
        h     == FirstIn(rest, {"/", "?", "#"})
        q     == FirstIn(rest, {"?", "#"})
        f     == FirstIn(rest, {"#"})
    IN  [Scheme   |-> u[1],
         Host     |-> SubSeq(rest, 1, h - 1),
         Path     |-> SubSeq(rest, h, q - 1),
         RawQuery |-> IF q < f THEN SubSeq(rest, q + 1, f - 1) ELSE <<>>,
         Fragment |-> SubSeq(rest, f + 1, Len(rest))]

\* (*URL).String()
String(r) ==
    <<r.Scheme, "://">> \o r.Host \o r.Path
    \o (IF r.RawQuery = <<>> THEN <<>> ELSE <<"?">> \o r.RawQuery)
    \o (IF r.Fragment = <<>> THEN <<>> ELSE <<"#">> \o r.Fragment)

\* (*URL).Hostname(): the host without port and without brackets
Hostname(r) ==
    IF r.Host = <<>> THEN ""
    ELSE IF r.Host[1] = "[::1]" THEN "::1" ELSE r.Host[1]

\* (*URL).Port(): the piece after the colon, "" when there is none
Port(r) == IF Len(r.Host) >= 3 /\ r.Host[2] = ":" THEN r.Host[3] ELSE ""

\* strings.ToLower on host names
ToLower(host) == IF host = "LOCALHOST" THEN "localhost" ELSE host

\* strconv.Atoi on port strings
Atoi(p) ==
    IF p = "18080" THEN HealthPort
    ELSE IF p = "80" THEN HttpPort
    ELSE IF p = "443" THEN 443
    ELSE IF p = "9000" THEN 9000
    ELSE 0

\* the port of a URL, by its scheme when it names none
EffectivePort(r) ==
    IF Port(r) # "" THEN Port(r)
    ELSE IF r.Scheme = "http" THEN "80"
    ELSE IF r.Scheme = "https" THEN "443"
    ELSE ""

\* mutant: host names are compared as written
normalizeHost_Verbatim(host) == host

\* normalizeHost: lower case, and the local addresses as "localhost"
normalizeHost(host) ==
    IF host = "" THEN ""
    ELSE IF ToLower(host) \in {"localhost", "127.0.0.1", "::1", "0.0.0.0"}
    THEN "localhost"
    ELSE ToLower(host)

\* the test FindProcessByURL applies to one registered child
MatchesURL(c, requestURL) ==
    LET parsedURL == Parse(requestURL)
        healthURL == Parse(HealthCheckURL(ckind[c]))
        requestPort == EffectivePort(parsedURL)
    IN  \/ /\ normalizeHost(Hostname(parsedURL)) = normalizeHost(Hostname(healthURL))
           /\ requestPort = EffectivePort(healthURL)
        \/ /\ extractPortFromURL(ckind[c]) > 0
           /\ Atoi(requestPort) = extractPortFromURL(ckind[c])

\* FindProcessByURL: the children Range can stop at, {0} when none matches
FindProcessByURL(requestURL) ==
    LET matched == {c \in Kids : /\ \E n \in Names : processes[n] = c
                                 /\ MatchesURL(c, requestURL)}
    IN  IF matched = {} THEN {0} ELSE matched

\* mutant: the caller's host is kept
OverrideHost_Kept(parsedURL, parsedHealthURL) == parsedURL

\* parsedURL.Scheme = parsedHealthURL.Scheme; parsedURL.Host = parsedHealthURL.Host
OverrideHost(parsedURL, parsedHealthURL) ==
    [parsedURL EXCEPT !.Scheme = parsedHealthURL.Scheme,
                      !.Host = parsedHealthURL.Host]

\* the URL the request goes to: for an associated child c the scheme and
\* host of its health URL with what follows the host in the caller's URL, or
\* with the caller's path; the caller's URL when no child is associated
BuildURL(c, u) ==
    IF c = 0 THEN u
    ELSE LET parsedHealthURL == Parse(HealthCheckURL(ckind[c]))
         IN  IF HasSchemePrefix(u)
             THEN String(OverrideHost(Parse(u), parsedHealthURL))
             ELSE <<parsedHealthURL.Scheme, "://">> \o parsedHealthURL.Host
                  \o (IF u # <<>> /\ u[1] = "/" THEN u ELSE <<"/">> \o u)

DefaultCommand == <<"g", "o">>

\* the arguments a tool call can carry
CallArgs ==
    [tool : {"start_process"}, name : Names, cmd : Commands, kind : UrlKinds,
     port : {0}, url : {DefaultURL}]
    \cup [tool : {"kill_process"}, name : Names \cup {""}, cmd : {DefaultCommand},
          kind : {"tcp"}, port : {0, HealthPort}, url : {DefaultURL}]
    \cup [tool : {"request_with_logs"}, name : Names \cup {""},
          cmd : {DefaultCommand}, kind : {"tcp"}, port : {0}, url : {DefaultURL}]
    \cup [tool : MemoryTools, name : {""}, cmd : {DefaultCommand}, kind : {"tcp"},
          port : {0}, url : {DefaultURL}]

\* a handler is entered: the first statement of every handler takes the token.
\* Calls blocked in the acquire are interchangeable: the one that gets through
\* runs as the lowest handler not in use.  A run spawns at most maxSpawns
\* children.
Acquire(h, maxSpawns) ==
    /\ ~crashed
    /\ hs[h].pc = "wait"
    /\ \A g \in Handlers : g < h => hs[g].pc # "wait"
    /\ acquireToolSemaphore
    /\ \E a \in CallArgs :
          /\ a.tool = "start_process" => nextChild <= maxSpawns
          /\ Set(h, [IdleHandler EXCEPT !.pc = "entry", !.tool = a.tool,
                        !.name = a.name, !.cmd = a.cmd, !.kind = a.kind,
                        !.port = a.port, !.url = a.url])
    /\ UNCHANGED timeVars
    /\ UNCHANGED <<processes, nextChild, envVars, procVars, logVars, exitVars,
                   killVars, crashed>>

\* the deferred release runs when the handler returns its result
Release(h) ==
    /\ ~crashed
    /\ hs[h].pc = "ret"
    /\ releaseToolSemaphore
    /\ Set(h, IdleHandler)
    /\ UNCHANGED timeVars
    /\ UNCHANGED <<processes, nextChild, envVars, procVars, logVars, exitVars,
                   killVars, crashed>>

\* save_memory, read_memory, save_knowledge, search_knowledge: file work only
MemoryBody(h) ==
    /\ ~crashed
    /\ hs[h].pc = "entry" /\ hs[h].tool \in MemoryTools
    /\ Set(h, [hs[h] EXCEPT !.pc = "ret", !.result = "ok"])
    /\ UNCHANGED timeVars
    /\ UNCHANGED <<toolSemaphore, processes, nextChild, envVars, procVars, logVars,
                   exitVars, killVars, crashed>>

\* --------------------------------------------- ProcessInfo.GetRequestLog
\* mutant: the window has no lower end
InWindow_Unbounded(logTime, startTime, endTime) == logTime < endTime

\* mutant: a line recorded exactly 1 s before the start is in the window
InWindow_Inclusive(logTime, startTime, endTime) ==
    logTime >= startTime - OneSecond /\ logTime < endTime

\* logTime.After(startTime.Add(-1*time.Second)) && logTime.Before(endTime)
InWindow(logTime, startTime, endTime) ==
    logTime > startTime - OneSecond /\ logTime < endTime

\* mutant: a line found is put behind the ones found so far
Prepend_Behind(line, logs) == Append(logs, line)

\* logs = append([]string{line}, logs...)
Prepend(line, logs) == <<line>> \o logs

\* mutant: the walk stops at a line older than startTime
ScanStops_Early(logTime, startTime) == logTime < startTime

\* logTime.Before(startTime.Add(-2 * time.Second))
ScanStops(logTime, startTime) == logTime < startTime - TwoSeconds

\* the loop over the ring, from the newest slot back: slots never written are
\* skipped, a line in the window is put in front of the ones found so far,
\* and the walk stops at a line older than startTime - 2 s
RECURSIVE ScanRing(_, _, _, _, _)
ScanRing(c, startTime, endTime, i, logs) ==
    IF i >= maxLogLines THEN logs
    ELSE LET idx == (logIndex[c] - 1 - i + maxLogLines) % maxLogLines
             logTime == logTimes[c][idx]
             found == IF InWindow(logTime, startTime, endTime)
                      THEN Prepend(logLines[c][idx], logs) ELSE logs
         IN  IF logTime = 0 THEN ScanRing(c, startTime, endTime, i + 1, logs)
             ELSE IF ScanStops(logTime, startTime) THEN found
             ELSE ScanRing(c, startTime, endTime, i + 1, found)

GetRequestLog(c, startTime) ==
    ScanRing(c, startTime, now + HalfSecond, 0, <<>>)

\* ------------------------------------------------- request_with_logs tool
\* what httpClient.Do gives: 0 stands for a transport error, else the status
HttpOutcomes == {0, 200}

\* mutant: a transport error is answered with an isError result
TransportFailureResult_IsError == "err_request"

\* the result of the call when httpClient.Do returned an error
TransportFailureResult == "ok"

\* request_with_logs up to the request: the named child must be registered;
\* without a name the child is found by the URL, if the URL has a scheme;
\* the URL to ask is built and StartRequestLog marks the time
RequestBody(h) ==
    /\ ~crashed
    /\ hs[h].pc = "entry" /\ hs[h].tool = "request_with_logs"
    /\ IF hs[h].name # "" /\ processes[hs[h].name] = 0
       THEN Set(h, [hs[h] EXCEPT !.pc = "ret", !.result = "err_notfound"])
       ELSE \E c \in (IF hs[h].name # "" THEN {processes[hs[h].name]}
                      ELSE IF HasSchemePrefix(hs[h].url)
                      THEN FindProcessByURL(hs[h].url)
                      ELSE {0}) :
               Set(h, [hs[h] EXCEPT !.pc = "http", !.info = c,
                         !.fullURL = BuildURL(c, hs[h].url),
                         !.requestStartTime = IF c = 0 THEN 0 ELSE now])
    /\ UNCHANGED timeVars
    /\ UNCHANGED <<toolSemaphore, processes, nextChild, envVars, procVars, logVars,
                   exitVars, killVars, crashed>>

\* httpClient.Do returns; the status and the body, or 0 and the error text;
\* then the log window of the associated child, and the result
RequestFetch(h) ==
    /\ ~crashed
    /\ hs[h].pc = "http"
    /\ \E st \in HttpOutcomes :
          LET c == hs[h].info
              requestLogs == IF c = 0 THEN <<>>
                             ELSE GetRequestLog(c, hs[h].requestStartTime)
          IN  /\ Set(h, [hs[h] EXCEPT
                    !.pc = "ret",
                    !.status = st,
                    !.responseBody = IF st = 0 THEN "error" ELSE "body",
                    !.log = requestLogs,
                    !.endTime = IF c = 0 THEN 0 ELSE now + HalfSecond,
                    !.result = IF st = 0 THEN TransportFailureResult ELSE "ok"])
              /\ served' = IF c = 0 THEN served
                           ELSE [lines |-> {requestLogs[i] : i \in DOMAIN requestLogs},
                                 at |-> now]
    /\ UNCHANGED <<now, ringVars, origin, closes, cancelled>>
    /\ UNCHANGED <<toolSemaphore, processes, nextChild, envVars, procVars, logVars,
                   exitVars, killVars, crashed>>

\* ------------------------------------------- ProcessManager.KillProcess
\* mutant: KillProcess waits on the command itself
KillProcessCallsWait_Itself == TRUE

\* KillProcess calls Cmd.Wait while it waits for the child to end
KillProcessCallsWait == FALSE

\* mutant: KillProcess goes on without waiting for the child to end
KillProcessAwaitsExit_Not == FALSE

\* KillProcess waits for the child to end: waitDone, or 3 s
KillProcessAwaitsExit == TRUE

\* mutant: the entry is left in the registry
KillProcessDelete_Skipped(name) == processes

\* the registry after KillProcess is done with the name
KillProcessDelete(name) == [processes EXCEPT ![name] = 0]

\* what the caller of KillProcess does when it returns: start_process goes
\* on to the port check, or returns the isError result of a failed readiness
\* wait with the collected log; kill_process returns its success text
AfterKill(h) ==
    IF hs[h].after = "reap" THEN [hs[h] EXCEPT !.pc = "reap"]
    ELSE IF hs[h].after = "fail"
    THEN [hs[h] EXCEPT !.pc = "ret", !.result = hs[h].err,
                       !.log = LogBuffer[hs[h].info]]
    ELSE [hs[h] EXCEPT !.pc = "ret", !.result = "ok"]

\* Load(name), Cancel(), then taskkill /F /T (Windows) or Process.Kill();
\* a failed taskkill falls back on the port reaper when the port is known.
\* The signalled child dies at once, or lingers (it is gone later, or never).
KillSignal(h) ==
    /\ ~crashed
    /\ hs[h].pc = "k_signal"
    /\ LET c == processes[hs[h].name] IN
       IF c = 0
       THEN /\ Set(h, AfterKill(h))
            /\ UNCHANGED <<envVars, procVars, killVars>>
       ELSE \E taskkill \in (IF windows THEN {"ok", "failed"} ELSE {"ok"}) :
            LET p == extractPortFromURL(ckind[c])
                fallback == taskkill = "failed" /\ p > 0
            IN  \E o \in (IF fallback THEN ReapOutcomes(p) ELSE {"none"}),
                   dies \in BOOLEAN :
                  /\ ProcEffect((IF dies THEN {c} ELSE {}) \cup ReapSelf(p, o),
                                (IF windows /\ taskkill = "ok" /\ dies
                                 THEN {c} ELSE {}) \cup ReapKids(p, o),
                                ReapPorts(p, o))
                  /\ killSent' = [killSent EXCEPT ![c] = TRUE]
                  /\ Set(h, [hs[h] EXCEPT !.pc = "k_await", !.target = c,
                               !.reaped = @ \/ fallback])
                  /\ UNCHANGED <<windows, timely, cname, ckind, viaTree, emitted,
                                 pipe,
                                 pipesClosed, graceElapsed, toolKilled>>
    /\ UNCHANGED timeVars
    /\ UNCHANGED <<toolSemaphore, processes, nextChild, logVars, exitVars, crashed>>

\* select { case <-info.waitDone: case <-time.After(3 * time.Second): },
\* then StdoutPipe.Close(), StderrPipe.Close()
KillAwait(h) ==
    /\ ~crashed
    /\ hs[h].pc = "k_await"
    /\ LET c == hs[h].target IN
       /\ KillProcessAwaitsExit => WaitDoneOrTimer(c)
       /\ graceElapsed' = [graceElapsed EXCEPT ![c] =
                             @ \/ (KillProcessAwaitsExit /\ ~waitDone[c])]
       /\ waitCalls' = [waitCalls EXCEPT ![c] =
                          IF KillProcessCallsWait THEN @ + 1 ELSE @]
       /\ pipesClosed' = [pipesClosed EXCEPT ![c] = TRUE]
    /\ Set(h, [hs[h] EXCEPT !.pc = "k_chan"])
    /\ UNCHANGED timeVars
    /\ UNCHANGED <<toolSemaphore, processes, nextChild, envVars, cname, ckind,
                   viaTree, os,
                   exitErr, listening, emitted, pipe, logVars, wpc, waitDone,
                   ExitChan, killSent, toolKilled, crashed>>

\* logWg.Wait() or 1 s, logChan closed under its guard, Delete(name)
KillCloseChan(h) ==
    /\ ~crashed
    /\ hs[h].pc = "k_chan"
    /\ LogWgOrTimer(hs[h].target)
    /\ CloseLogChan(hs[h].target)
    /\ processes' = KillProcessDelete(hs[h].name)
    /\ toolKilled' = [toolKilled EXCEPT ![hs[h].target] =
                         @ \/ hs[h].tool = "kill_process"]
    /\ Set(h, AfterKill(h))
    /\ UNCHANGED <<now, ringVars, served, origin, cancelled>>
    /\ UNCHANGED <<toolSemaphore, nextChild, envVars, procVars, rpc, rline, logChan,
                   LogBuffer, dropped, mpc, exitVars, killSent, graceElapsed>>

\* ---------------------------------------------------- start_process handler
\* mutant: the handler leaves a registered homonym alone
StartKillsHomonym_Never(name) == FALSE

\* the handler finds a child registered under the name and clears it first
StartKillsHomonym(name) == processes[name] # 0

\* strings.Contains(args.Command, " "), then the homonym check
StartValidate(h) ==
    /\ ~crashed
    /\ hs[h].pc = "entry" /\ hs[h].tool = "start_process"
    /\ IF ContainsSpace(hs[h].cmd)
       THEN Set(h, [hs[h] EXCEPT !.pc = "ret", !.result = "err_command"])
       ELSE Set(h, [hs[h] EXCEPT
                      !.pc = IF StartKillsHomonym(hs[h].name)
                             THEN "k_signal" ELSE "reap",
                      !.after = "reap",
                      !.old = processes[hs[h].name],
                      !.squat = (squatter /\ hs[h].kind = "tcp")])
    /\ UNCHANGED timeVars
    /\ UNCHANGED <<toolSemaphore, processes, nextChild, envVars, procVars, logVars,
                   exitVars, killVars, crashed>>

\* mutant: the port is never reclaimed
HealthCheckReapOutcomes_Skipped(kind) == {"free"}

\* KillProcessByHealthCheckURL: what it comes to for this URL
HealthCheckReapOutcomes(kind) ==
    LET p == extractPortFromURL(kind) IN
    IF p = 0 THEN {"urlError"}
    ELSE IF ~isPortInUse(p) THEN {"free"}
    ELSE ReapOutcomes(p)

\* the port is reclaimed before the spawn; an error is only logged
StartReap(h) ==
    /\ ~crashed
    /\ hs[h].pc = "reap"
    /\ LET p == extractPortFromURL(hs[h].kind) IN
       \E o \in HealthCheckReapOutcomes(hs[h].kind) :
          /\ ProcEffect(ReapSelf(p, o), ReapKids(p, o), ReapPorts(p, o))
          /\ Set(h, [hs[h] EXCEPT !.pc = "spawn",
                       !.reaped = @ \/ (o \notin {"urlError", "free"})])
    /\ UNCHANGED timeVars
    /\ UNCHANGED <<toolSemaphore, processes, nextChild, windows, timely, cname, ckind,
                   viaTree,
                   emitted, pipe, pipesClosed, logVars, exitVars, killVars,
                   crashed>>

\* ------------------------------------------------ the child's environment
\* An environment entry is a key and a value; a caller's env is a set of
\* entries with distinct keys, os.Environ() a sequence of entries.
Environ == << [k |-> "Path", v |-> "parent"], [k |-> "HOME", v |-> "parent"] >>

\* env arguments of start_process
CallerEnvs ==
    { {}, {[k |-> "NEW", v |-> "caller"]}, {[k |-> "HOME", v |-> "caller"]},
      {[k |-> "PATH", v |-> "caller"]},
      {[k |-> "Path", v |-> "caller"], [k |-> "NEW", v |-> "caller"]} }

\* envMap: the entries of os.Environ(), then envMap[key] = value for the
\* caller's
EnvMap(env) ==
    {Environ[i] : i \in {j \in DOMAIN Environ : \A e \in env : e.k # Environ[j].k}}
    \cup env

\* the orders in which `for key, value := range envMap` can visit a map
Orders(S) ==
    {q \in [1..Cardinality(S) -> S] : \A i, j \in DOMAIN q : q[i] = q[j] => i = j}

\* cmd.Env: left nil without caller entries, and then os.Environ() is what
\* the command gets; else the entries of envMap in the order of the range
CmdEnvs(env) == IF env = {} THEN {Environ} ELSE Orders(EnvMap(env))

\* the key as the system compares it: without regard to case on Windows
FoldKey(key) == IF windows /\ key = "Path" THEN "PATH" ELSE key

\* what exec hands to the child: of the entries with one key, the last
dedupEnv(cmdEnv) ==
    {cmdEnv[i] : i \in {j \in DOMAIN cmdEnv :
                          \A l \in (j + 1)..Len(cmdEnv) :
                              FoldKey(cmdEnv[l].k) # FoldKey(cmdEnv[j].k)}}

\* ProcessManager.StartProcess: a homonym still registered is awaited
\* (waitDone or 2 s) and deleted; then the environment is built, the command
\* is started, the child stored under its name and its four goroutines
\* launched
StartSpawn(h) ==
    /\ ~crashed
    /\ hs[h].pc = "spawn"
    /\ LET n == hs[h].name
           prev == processes[n]
           c == nextChild
           grace == IF prev # 0
                    THEN [graceElapsed EXCEPT ![prev] = @ \/ ~waitDone[prev]]
                    ELSE graceElapsed
       IN  /\ prev # 0 => WaitDoneOrTimer(prev)
           /\ \/ /\ Set(h, [hs[h] EXCEPT !.pc = "ret", !.result = "err_spawn"])
                 /\ processes' = [processes EXCEPT ![n] = 0]
                 /\ graceElapsed' = grace
                 /\ UNCHANGED <<nextChild, procVars, rpc, mpc, wpc>>
              \/ /\ c <= MaxChildren
                 /\ \E cmdEnv \in CmdEnvs(hs[h].env) :
                       Set(h, [hs[h] EXCEPT !.pc = "ready", !.info = c,
                                 !.childEnv = dedupEnv(cmdEnv),
                                 !.deadline = now + StartTimeout])
                 /\ processes' = [processes EXCEPT ![n] = c]
                 /\ graceElapsed' = grace
                 /\ nextChild' = c + 1
                 /\ cname' = [cname EXCEPT ![c] = n]
                 /\ ckind' = [ckind EXCEPT ![c] = hs[h].kind]
                 /\ os' = [os EXCEPT ![c] = "running"]
                 /\ rpc' = [rpc EXCEPT ![c] = [s \in Streams |-> "read"]]
                 /\ mpc' = [mpc EXCEPT ![c] = "run"]
                 /\ wpc' = [wpc EXCEPT ![c] = "wait"]
                 /\ UNCHANGED <<exitErr, listening, viaTree, emitted, pipe,
                                pipesClosed>>
    /\ UNCHANGED timeVars
    /\ UNCHANGED <<toolSemaphore, envVars, rline, logChan, logChanClosed, LogBuffer,
                   dropped, waitCalls, waitDone, ExitChan, killSent, toolKilled,
                   crashed>>

\* who answers a connect / request on port p
Answerer(c, p) ==
    IF listening[c] /\ ServicePort(ckind[c]) = p THEN "child" ELSE "other"

\* the ticker branch of the readiness select, when the probe succeeds:
\* a TCP connect to :port, or an HTTP request answered with a 2xx status;
\* the handler then snapshots LogBuffer and returns success
ReadyProbe(h) ==
    /\ ~crashed
    /\ hs[h].pc = "ready"
    /\ LET c == hs[h].info
           hp == extractPortFromURL(ckind[c])
           p == ServicePort(ckind[c])
       IN  /\ isPortInUse(p)
           /\ \E st \in Statuses :
                /\ IF hp > 0 THEN st = 200 ELSE StatusReady(st)
                /\ Set(h, [hs[h] EXCEPT !.pc = "ret", !.result = "ok",
                             !.answered = Answerer(c, p),
                             !.status = IF hp > 0 THEN 0 ELSE st,
                             !.mark = emitted[c],
                             !.log = LogBuffer[c]])
    /\ UNCHANGED timeVars
    /\ UNCHANGED <<toolSemaphore, processes, nextChild, envVars, procVars, logVars,
                   exitVars, killVars, crashed>>

\* mutant: the error is returned without terminating the child
ReadinessFailure_NoKill(r, e) ==
    [r EXCEPT !.pc = "ret", !.err = e, !.result = e, !.log = LogBuffer[r.info]]

\* a failed readiness wait: the handler calls KillProcess(args.Name) and
\* then returns the error with the collected log
ReadinessFailure(r, e) == [r EXCEPT !.pc = "k_signal", !.after = "fail", !.err = e]

\* case <-ctx.Done(): the wait is over after timeout_seconds
ReadyTimeout(h) ==
    /\ ~crashed
    /\ hs[h].pc = "ready"
    /\ Set(h, ReadinessFailure(hs[h], "timeout"))
    /\ UNCHANGED timeVars
    /\ UNCHANGED <<toolSemaphore, processes, nextChild, envVars, procVars, logVars,
                   exitVars, killVars, crashed>>

\* mutant: a received exit is reported as a timeout
ReadinessExitError_Timeout(v) == "timeout"

\* the error the exit branch returns for the value received from exitChan
ReadinessExitError(v) == IF v = "err" THEN "abnormal" ELSE "exited"

\* case exitErr := <-exitChan
ReadyExit(h) ==
    /\ ~crashed
    /\ hs[h].pc = "ready"
    /\ LET c == hs[h].info IN
       /\ ExitChan[c] # "empty"
       /\ ExitChan' = [ExitChan EXCEPT ![c] = "empty"]
       /\ Set(h, ReadinessFailure(hs[h], ReadinessExitError(ExitChan[c])))
    /\ UNCHANGED timeVars
    /\ UNCHANGED <<toolSemaphore, processes, nextChild, envVars, procVars, logVars,
                   wpc, waitCalls, waitDone, killVars, crashed>>

\* ----------------------------------------------------- kill_process handler
\* mutant: an unregistered name falls back on the port argument
KillUsesPort_Fallback(n, p) == n = "" \/ (processes[n] = 0 /\ p > 0)

\* the handler takes the port path: `if args.Name != ""` comes first and
\* returns in both of its branches
KillUsesPort(n, p) == n = ""

\* mutant: an unregistered name is reported as terminated
KillNotFound_Ok(r) == [r EXCEPT !.pc = "ret", !.result = "ok"]

\* GetProcess(args.Name) finds nothing: the isError result that says this
\* supervisor did not start the process
KillNotFound(r) == [r EXCEPT !.pc = "ret", !.result = "err_notfound"]

KillValidate(h) ==
    /\ ~crashed
    /\ hs[h].pc = "entry" /\ hs[h].tool = "kill_process"
    /\ LET n == hs[h].name
           p == hs[h].port
       IN  IF n = "" /\ p = 0
           THEN /\ Set(h, [hs[h] EXCEPT !.pc = "ret", !.result = "err_args"])
                /\ UNCHANGED <<squatter, os, exitErr, listening>>
           ELSE IF ~KillUsesPort(n, p)
           THEN /\ IF processes[n] # 0
                   THEN Set(h, [hs[h] EXCEPT !.pc = "k_signal", !.after = "killed",
                                  !.info = processes[n]])
                   ELSE Set(h, KillNotFound(hs[h]))
                /\ UNCHANGED <<squatter, os, exitErr, listening>>
           ELSE \E o \in ReapOutcomes(p) :
                /\ ProcEffect(ReapSelf(p, o), ReapKids(p, o), ReapPorts(p, o))
                /\ Set(h, [hs[h] EXCEPT !.pc = "ret", !.reaped = TRUE,
                             !.outcome = o,
                             !.result = IF ReapOk(o) THEN "ok" ELSE "err_port"])
    /\ UNCHANGED timeVars
    /\ UNCHANGED <<toolSemaphore, processes, nextChild, windows, timely, cname, ckind,
                   viaTree, emitted, pipe, pipesClosed, logVars, exitVars, killVars,
                   crashed>>

\* ------------------------------------------------------------------- Next
\* the dispatcher and the life cycle of the children; the children are quiet
\* and listen themselves
HandlerStep(h, maxSpawns) ==
    \/ Acquire(h, maxSpawns) \/ Release(h) \/ MemoryBody(h)
    \/ RequestBody(h) \/ RequestFetch(h)
    \/ StartValidate(h) \/ StartReap(h) \/ StartSpawn(h)
    \/ ReadyProbe(h) \/ ReadyTimeout(h) \/ ReadyExit(h)
    \/ KillValidate(h)
    \/ KillSignal(h) \/ KillAwait(h) \/ KillCloseChan(h)

LifeStep(c, trees) ==
    \/ ChildListen(c, trees)
    \/ \E e \in {"nil", "err"} : ChildExit(c, e)
    \/ \E s \in Streams : ReaderRead(c, s)
    \/ MergeExit(c)
    \/ WatcherWait(c) \/ WatcherCloseLogChan(c) \/ WatcherDeliver(c)

LogStep(c, budget) ==
    \/ \E s \in Streams : ChildEmit(c, s, budget) \/ ReaderSend(c, s)
    \/ MergeWrite(c)

Next ==
    \/ \E h \in Handlers : HandlerStep(h, MaxChildren)
    \/ \E c \in Kids : LifeStep(c, {FALSE})

\* the server on a host that is not Windows
InitUnix == Init /\ ~windows

Spec == InitUnix /\ [][Next]_vars

\* children that write log lines and may listen through a descendant, under
\* the same dispatcher
NextLog ==
    \/ \E h \in Handlers : HandlerStep(h, MaxLogChildren)
    \/ \E c \in Kids : LifeStep(c, BOOLEAN) \/ LogStep(c, MaxLines)

SpecLog == Init /\ [][NextLog]_vars

\* the same runs under the Go scheduler: a handler past its acquire and the
\* goroutines of a child take their next step when they can; nothing is
\* asked of the children or of the callers
HandlerBody(h) ==
    \/ Release(h) \/ MemoryBody(h)
    \/ RequestBody(h) \/ RequestFetch(h)
    \/ StartValidate(h) \/ StartReap(h) \/ StartSpawn(h)
    \/ ReadyProbe(h) \/ ReadyTimeout(h) \/ ReadyExit(h)
    \/ KillValidate(h)
    \/ KillSignal(h) \/ KillAwait(h) \/ KillCloseChan(h)

Reader(c, s) == ReaderRead(c, s) \/ ReaderSend(c, s)

Watcher(c) == WatcherWait(c) \/ WatcherCloseLogChan(c) \/ WatcherDeliver(c)

Merger(c) == MergeWrite(c) \/ MergeExit(c)

NextLive ==
    \/ HandlerStep(1, MaxLogChildren)
    \/ \E c \in Kids : LifeStep(c, {FALSE}) \/ LogStep(c, MaxLines)

FairLive ==
    /\ Init /\ [][NextLive]_vars
    /\ WF_vars(HandlerBody(1))
    /\ \A c \in Kids : WF_vars(Watcher(c)) /\ WF_vars(Merger(c))
    /\ \A c \in Kids : \A s \in Streams : WF_vars(Reader(c, s))

\* one client calling the tools one at a time, and a child that writes
\* enough lines to fill the log channel
NextFlood ==
    \/ HandlerStep(1, MaxLogChildren)
    \/ \E c \in Kids : LifeStep(c, {FALSE}) \/ LogStep(c, MaxFloodLines)

SpecFlood == Init /\ [][NextFlood]_vars

\* ------------------------------------------------------ runs in which time
\* passes: a child that was started and is ready, and a client that calls
\* request_with_logs on it
Tick(last) ==
    /\ ~crashed
    /\ now < last
    /\ now' = now + 1
    /\ UNCHANGED <<toolSemaphore, hs, processes, nextChild, envVars, procVars,
                   logVars, exitVars, killVars, ringVars, served, origin, closes,
                   cancelled, crashed>>

ClientRequest(h) == Acquire(h, 0) /\ hs'[h].tool = "request_with_logs"

\* the state after a start_process call that succeeded, for a health URL of
\* one of the shapes in kinds
InitReady(kinds) ==
    /\ toolSemaphore = 1
    /\ hs = [h \in Handlers |-> IdleHandler]
    /\ processes = [n \in Names |-> 1]
    /\ nextChild = 2
    /\ windows \in BOOLEAN
    /\ timely = TRUE
    /\ squatter = FALSE
    /\ cname = [c \in Kids |-> IF c = 1 THEN "svc" ELSE ""]
    /\ \E k \in kinds : ckind = [c \in Kids |-> IF c = 1 THEN k ELSE "tcp"]
    /\ os = [c \in Kids |-> IF c = 1 THEN "running" ELSE "unborn"]
    /\ exitErr = [c \in Kids |-> "none"]
    /\ listening = [c \in Kids |-> c = 1]
    /\ viaTree = [c \in Kids |-> FALSE]
    /\ emitted = [c \in Kids |-> 0]
    /\ pipe = [c \in Kids |-> [s \in Streams |-> <<>>]]
    /\ pipesClosed = [c \in Kids |-> FALSE]
    /\ rpc = [c \in Kids |-> [s \in Streams |-> IF c = 1 THEN "read" ELSE "off"]]
    /\ rline = [c \in Kids |-> [s \in Streams |-> 0]]
    /\ logChan = [c \in Kids |-> <<>>]
    /\ logChanClosed = [c \in Kids |-> FALSE]
    /\ LogBuffer = [c \in Kids |-> <<>>]
    /\ dropped = [c \in Kids |-> {}]
    /\ mpc = [c \in Kids |-> IF c = 1 THEN "run" ELSE "off"]
    /\ wpc = [c \in Kids |-> IF c = 1 THEN "wait" ELSE "off"]
    /\ waitCalls = [c \in Kids |-> 0]
    /\ waitDone = [c \in Kids |-> FALSE]
    /\ ExitChan = [c \in Kids |-> "empty"]
    /\ killSent = [c \in Kids |-> FALSE]
    /\ graceElapsed = [c \in Kids |-> FALSE]
    /\ toolKilled = [c \in Kids |-> FALSE]
    /\ now = 1
    /\ logLines = [c \in Kids |-> [i \in 0..(maxLogLines - 1) |-> 0]]
    /\ logTimes = [c \in Kids |-> [i \in 0..(maxLogLines - 1) |-> 0]]
    /\ logIndex = [c \in Kids |-> 0]
    /\ served = [lines |-> {}, at |-> 0]
    /\ origin = [c \in Kids |-> <<>>]
    /\ closes = [c \in Kids |-> 0]
    /\ cancelled = FALSE
    /\ crashed = FALSE

InitWindow == InitReady({"tcp"})

NextWindow ==
    \/ ClientRequest(1) \/ RequestBody(1) \/ RequestFetch(1) \/ Release(1)
    \/ \E c \in Kids :
          \/ LogStep(c, MaxWindowLines)
          \/ \E s \in Streams : ReaderRead(c, s)
    \/ Tick(MaxTime)

SpecWindow == InitWindow /\ [][NextWindow]_vars

\* the same with more lines than the ring has slots, over a shorter time
NextRing ==
    \/ ClientRequest(1) \/ RequestBody(1) \/ RequestFetch(1) \/ Release(1)
    \/ \E c \in Kids :
          \/ LogStep(c, MaxRingLines)
          \/ \E s \in Streams : ReaderRead(c, s)
    \/ Tick(MaxRingTime)

SpecRing == InitWindow /\ [][NextRing]_vars

\* more lines than the ring has slots, all written to stdout, over a time
\* long enough for a request to come more than 2 s after the last line
NextCut ==
    \/ ClientRequest(1) \/ RequestBody(1) \/ RequestFetch(1) \/ Release(1)
    \/ \E c \in Kids :
          \/ ChildEmit(c, "out", MaxRingLines)
          \/ ReaderRead(c, "out") \/ ReaderSend(c, "out")
          \/ MergeWrite(c)
    \/ Tick(MaxCutTime)

SpecCut == InitWindow /\ [][NextCut]_vars

\* -------------------------------------------------- runs over request URLs:
\* no child, or a ready child of either health URL shape, and a client that
\* calls request_with_logs with the URLs of CallerURLs
ClientURL(h) ==
    /\ ~crashed
    /\ hs[h].pc = "wait"
    /\ acquireToolSemaphore
    /\ \E n \in Names \cup {""}, u \in CallerURLs :
          Set(h, [IdleHandler EXCEPT !.pc = "entry", !.tool = "request_with_logs",
                    !.name = n, !.cmd = DefaultCommand, !.url = u])
    /\ UNCHANGED timeVars
    /\ UNCHANGED <<processes, nextChild, envVars, procVars, logVars, exitVars,
                   killVars, crashed>>

InitURL == Init \/ InitReady(UrlKinds)

NextURL ==
    \/ ClientURL(1) \/ RequestBody(1) \/ RequestFetch(1) \/ Release(1)

SpecURL == InitURL /\ [][NextURL]_vars

\* ------------------------------------------- runs over child environments:
\* a client that calls start_process with the env arguments of CallerEnvs,
\* up to the start of the child
ClientEnv(h) ==
    /\ ~crashed
    /\ hs[h].pc = "wait"
    /\ acquireToolSemaphore
    /\ nextChild <= MaxLogChildren
    /\ \E n \in Names, kind \in UrlKinds, env \in CallerEnvs :
          Set(h, [IdleHandler EXCEPT !.pc = "entry", !.tool = "start_process",
                    !.name = n, !.cmd = DefaultCommand, !.kind = kind,
                    !.url = DefaultURL, !.env = env])
    /\ UNCHANGED timeVars
    /\ UNCHANGED <<processes, nextChild, envVars, procVars, logVars, exitVars,
                   killVars, crashed>>

NextEnv ==
    \/ ClientEnv(1) \/ StartValidate(1) \/ StartReap(1) \/ StartSpawn(1)

SpecEnv == Init /\ [][NextEnv]_vars

\* ------------------------------------ runs in which the server is cancelled:
\* one start_process call under explicit time, a second call that arrives
\* while the first holds the token, and SIGINT or SIGTERM at any moment
Cancel ==
    /\ ~crashed
    /\ ~cancelled
    /\ cancelled' = TRUE
    /\ UNCHANGED <<toolSemaphore, hs, processes, nextChild, envVars, procVars,
                   logVars, exitVars, killVars, now, ringVars, served, origin,
                   closes, crashed>>

ClientStart(h) == Acquire(h, MaxLogChildren) /\ hs'[h].tool = "start_process"

\* the context of the readiness wait is derived from the handler's context:
\* so in waitForHTTPReadyWithExitCheck; waitForPortReadyWithExitCheck builds
\* its own on context.Background()
ReadyObservesRoot(h) == extractPortFromURL(hs[h].kind) = 0

\* ctx.Done() of the readiness wait is closed: the deadline is reached, or
\* the parent context is cancelled
ReadyCtxIsDone(h) ==
    now >= hs[h].deadline \/ (cancelled /\ ReadyObservesRoot(h))

\* case <-ctx.Done(), under explicit time
ReadyCtxDone(h) == ReadyCtxIsDone(h) /\ ReadyTimeout(h)

\* a call arrives while the token is out: its handler blocks in the receive
\* of acquireToolSemaphore
CallBlocks(h) ==
    /\ ~crashed
    /\ hs[h].pc = "wait"
    /\ toolSemaphore = 0
    /\ Set(h, [IdleHandler EXCEPT !.pc = "acquire"])
    /\ UNCHANGED timeVars
    /\ UNCHANGED <<toolSemaphore, processes, nextChild, envVars, procVars, logVars,
                   exitVars, killVars, crashed>>

\* the blocked receive gets the token; the call is one of the memory tools
AcquireBlocked(h) ==
    /\ ~crashed
    /\ hs[h].pc = "acquire"
    /\ acquireToolSemaphore
    /\ \E t \in MemoryTools :
          Set(h, [IdleHandler EXCEPT !.pc = "entry", !.tool = t,
                    !.cmd = DefaultCommand, !.url = DefaultURL])
    /\ UNCHANGED timeVars
    /\ UNCHANGED <<processes, nextChild, envVars, procVars, logVars, exitVars,
                   killVars, crashed>>

\* time passes, but not over a select that has a closed ctx.Done() to take
TickCancel ==
    /\ Tick(MaxCancelTime)
    /\ \A h \in Handlers : ~(hs[h].pc = "ready" /\ ReadyCtxIsDone(h))

NextCancel ==
    \/ ClientStart(1) \/ StartValidate(1) \/ StartReap(1) \/ StartSpawn(1)
    \/ ReadyProbe(1) \/ ReadyExit(1) \/ ReadyCtxDone(1)
    \/ KillSignal(1) \/ KillAwait(1) \/ KillCloseChan(1) \/ Release(1)
    \/ CallBlocks(2) \/ AcquireBlocked(2) \/ MemoryBody(2) \/ Release(2)
    \/ \E c \in Kids : LifeStep(c, {FALSE})
    \/ TickCancel
    \/ Cancel

SpecCancel == Init /\ [][NextCancel]_vars

\* --------------------------------------- runs in which the timers are free:
\* a bounded wait may end on its timer while the awaited goroutine is still
\* on its way
InitRace == InitTimely(FALSE)

NextRace ==
    \/ HandlerStep(1, MaxLogChildren)
    \/ \E c \in Kids : LifeStep(c, {FALSE}) \/ LogStep(c, MaxLines)

SpecRace == InitRace /\ [][NextRace]_vars

\* ------------------------------------------- runs over two children of one
\* name that write: one client that starts, asks and kills by name, on a
\* system other than Windows with the health port free of strangers
ClientFrame(h) ==
    /\ Acquire(h, MaxChildren)
    /\ hs'[h].tool \in {"start_process", "request_with_logs", "kill_process"}
    /\ hs'[h].name # "" /\ hs'[h].cmd = DefaultCommand /\ hs'[h].kind = "tcp"
    /\ hs'[h].port = 0

InitFrame == Init /\ ~windows /\ ~squatter

NextFrame ==
    \/ ClientFrame(1) \/ Release(1)
    \/ RequestBody(1) \/ RequestFetch(1)
    \/ StartValidate(1) \/ StartReap(1) \/ StartSpawn(1)
    \/ ReadyProbe(1) \/ ReadyTimeout(1) \/ ReadyExit(1)
    \/ KillValidate(1)
    \/ KillSignal(1) \/ KillAwait(1) \/ KillCloseChan(1)
    \/ \E c \in Kids : LifeStep(c, {FALSE}) \/ LogStep(c, MaxLines)

SpecFrame == InitFrame /\ [][NextFrame]_vars

\* ------------------------------------------------ killProcessByPort, parsing
\* A line of the netstat output is the sequence of its characters, a word
\* that cannot hold a port pattern (an IPv4 address, the state) being one
\* piece.  A row says what the line is about: the local address and port,
\* the foreign address and port (0 for *), the state, the owner.
Digits == <<"0", "1", "2", "3", "4", "5", "6", "7", "8", "9">>

\* strconv.Itoa / the %d verb
RECURSIVE Itoa(_)
Itoa(n) == IF n < 10 THEN <<Digits[n + 1]>>
           ELSE Itoa(n \div 10) \o <<Digits[(n % 10) + 1]>>

\* strconv.Atoi on a sequence of characters: 0 stands for the error
RECURSIVE ParseInt(_, _)
ParseInt(cs, acc) ==
    IF cs = <<>> THEN acc
    ELSE IF \E d \in DOMAIN Digits : Digits[d] = Head(cs)
    THEN ParseInt(Tail(cs),
                  10 * acc + (CHOOSE d \in DOMAIN Digits : Digits[d] = Head(cs)) - 1)
    ELSE 0

\* strings.Contains on sequences of characters
Contains(text, pat) ==
    \E i \in 1..(Len(text) - Len(pat) + 1) :
        SubSeq(text, i, i + Len(pat) - 1) = pat

NetstatRows ==
    { [ip |-> <<"0.0.0.0">>, lport |-> 80, fip |-> <<"0.0.0.0">>, fport |-> 0,
       state |-> "LISTEN", pid |-> 11],
      [ip |-> <<":", ":">>, lport |-> 80, fip |-> <<":", ":">>, fport |-> 0,
       state |-> "LISTEN", pid |-> 11],
      [ip |-> <<"0.0.0.0">>, lport |-> 8080, fip |-> <<"0.0.0.0">>, fport |-> 0,
       state |-> "LISTEN", pid |-> 12],
      [ip |-> <<"10.0.0.5">>, lport |-> 5000, fip |-> <<"10.0.0.9">>, fport |-> 80,
       state |-> "ESTABLISHED", pid |-> 13],
      [ip |-> <<"0.0.0.0">>, lport |-> 18080, fip |-> <<"0.0.0.0">>, fport |-> 0,
       state |-> "LISTEN", pid |-> 14] }

\* the netstat outputs of the runs: up to MaxNetstatLines lines
NetstatTables ==
    UNION {[1..k -> NetstatRows] : k \in 1..MaxNetstatLines}

ReapPortArgs == {HttpPort, 8080}

\* the columns of a line of `netstat -tulnp`; the last is PID/program
Fields(row) ==
    << <<"tcp">>,
       row.ip \o <<":">> \o Itoa(row.lport),
       row.fip \o <<":">> \o (IF row.fport = 0 THEN <<"*">> ELSE Itoa(row.fport)),
       <<row.state>>,
       Itoa(row.pid) \o <<"/", "x">> >>

\* the text of the line: the columns with blanks between them
RECURSIVE Join(_)
Join(fs) == IF Len(fs) = 1 THEN fs[1] ELSE fs[1] \o <<" ">> \o Join(Tail(fs))

\* strings.Contains(line, "LISTENING") || strings.Contains(line, "LISTEN")
IsListenLine(text) == \E i \in DOMAIN text : text[i] \in {"LISTEN", "LISTENING"}

\* strings.Split(pidField, "/")[0], then Atoi
PidOf(pidField) ==
    LET cut == FirstIn(pidField, {"/"}) IN ParseInt(SubSeq(pidField, 1, cut - 1), 0)

\* the loop over the lines: a LISTEN line that contains ":<port>" gives the
\* PID of its last column, unless seenPIDs has it
RECURSIVE ParsePids(_, _, _)
ParsePids(table, port, pids) ==
    IF table = <<>> THEN pids
    ELSE LET text == Join(Fields(Head(table)))
             pid == PidOf(Fields(Head(table))[5])
             take == /\ IsListenLine(text)
                     /\ Contains(text, <<":">> \o Itoa(port))
                     /\ pid > 0
                     /\ \A i \in DOMAIN pids : pids[i] # pid
         IN  ParsePids(Tail(table), port, IF take THEN Append(pids, pid) ELSE pids)

\* a kill_process call with a port only, on a system whose netstat prints
\* one of the tables
ClientReap(h) ==
    /\ ~crashed
    /\ hs[h].pc = "wait"
    /\ acquireToolSemaphore
    /\ \E port \in ReapPortArgs, table \in NetstatTables :
          Set(h, [IdleHandler EXCEPT !.pc = "entry", !.tool = "kill_process",
                    !.cmd = DefaultCommand, !.url = DefaultURL,
                    !.port = port, !.netstat = table])
    /\ UNCHANGED timeVars
    /\ UNCHANGED <<processes, nextChild, envVars, procVars, logVars, exitVars,
                   killVars, crashed>>

\* killProcessByPort from the netstat output on: the PIDs found are
\* signalled in the order found
ReapByPort(h) ==
    /\ ~crashed
    /\ hs[h].pc = "entry" /\ hs[h].tool = "kill_process" /\ hs[h].name = ""
    /\ LET pids == ParsePids(hs[h].netstat, hs[h].port, <<>>) IN
       Set(h, [hs[h] EXCEPT !.pc = "ret", !.reaped = TRUE, !.pids = pids,
                 !.outcome = IF pids = <<>> THEN "noPid" ELSE "killed",
                 !.result = IF pids = <<>> THEN "err_port" ELSE "ok"])
    /\ UNCHANGED timeVars
    /\ UNCHANGED <<toolSemaphore, processes, nextChild, envVars, procVars, logVars,
                   exitVars, killVars, crashed>>

NextReap == ClientReap(1) \/ ReapByPort(1) \/ Release(1)

SpecReap == Init /\ [][NextReap]_vars

\* ================================================================ claims
StartHandlers == {h \in Handlers : hs[h].tool = "start_process"}
ReadinessErrors == {"timeout", "exited", "abnormal"}
ExitErrors == {"exited", "abnormal"}

\* C1 (P1): in every reachable state at most one tool handler body is
\* executing: of the handlers of any tool, at most one is past its acquire
\* and before its release.
C1_SerializedTools ==
    Cardinality({h \in Handlers : hs[h].pc # "wait"}) <= 1

\* a start_process handler sits in its readiness wait while the next call is
\* held at the acquire
C1_Witness ==
    /\ hs[1].pc = "ready" /\ hs[1].tool = "start_process"
    /\ hs[2].pc = "wait" /\ toolSemaphore = 0

\* C2 (W1): Cmd.Wait is invoked at most once on any child, and only by the
\* exit watcher: the count is 1 exactly when the watcher is past its wait,
\* whatever KillProcess and the homonym wait of StartProcess did meanwhile.
C2_SingleWaiter ==
    \A c \in Kids :
        /\ waitCalls[c] <= 1
        /\ waitCalls[c] = 1 <=> wpc[c] \in {"await", "deliver", "done"}
        /\ waitDone[c] => waitCalls[c] = 1

\* child 1 was killed and waited for, and its name was started again
C2_Witness ==
    /\ killSent[1] /\ waitDone[1] /\ waitCalls[1] = 1
    /\ Spawned(2) /\ cname[2] = cname[1] /\ processes[cname[1]] = 2

\* C3 (N1): a registry entry names a spawned child of that name, and of the
\* children ever started under one name at most one is neither waited for
\* (waitDone) nor past a grace period: a name is registered again only after
\* the previous child's waitDone fired or a bounded wait for it timed out.
C3_NameUniqueness ==
    /\ \A n \in Names :
          processes[n] # 0 => Spawned(processes[n]) /\ cname[processes[n]] = n
    /\ \A n \in Names :
          Cardinality({k \in Kids : /\ Spawned(k) /\ cname[k] = n
                                    /\ ~waitDone[k] /\ ~graceElapsed[k]}) <= 1

\* the name is registered again while the old child, which outlived its kill
\* signal and the grace period, is still running
C3_Witness ==
    /\ Spawned(1) /\ processes[cname[1]] = 2
    /\ graceElapsed[1] /\ ~waitDone[1] /\ os[1] = "running"

\* C4: start_process returns success only for a child that is running, is
\* registered under its name, and itself answered the readiness probe (with
\* a status in [200,300) on the HTTP path).
C4_SuccessMeansChildReady ==
    \A h \in StartHandlers :
        (hs[h].pc = "ret" /\ hs[h].result = "ok") =>
            /\ os[hs[h].info] = "running"
            /\ processes[hs[h].name] = hs[h].info
            /\ hs[h].answered = "child"
            /\ extractPortFromURL(hs[h].kind) = 0 => StatusReady(hs[h].status)

\* C5: when start_process returns success, every line the child wrote
\* before the readiness probe succeeded is in the log snapshot it returns.
C5_SnapshotHoldsStartupLines ==
    \A h \in StartHandlers :
        (hs[h].pc = "ret" /\ hs[h].result = "ok") =>
            \A ln \in 1..hs[h].mark : \E i \in DOMAIN hs[h].log : hs[h].log[i] = ln

C7_ReadinessFailureTerminates ==
    \A h \in StartHandlers :
        (hs[h].pc = "ret" /\ hs[h].result \in ReadinessErrors) =>
            /\ processes[hs[h].name] = 0
            /\ killSent[hs[h].info]
            /\ IsPrefix(hs[h].log, LogBuffer[hs[h].info])

\* the readiness wait timed out on a child that had logged a line
C7_Witness ==
    \E h \in StartHandlers :
        /\ hs[h].pc = "ret" /\ hs[h].result = "timeout"
        /\ hs[h].log # <<>> /\ processes[hs[h].name] = 0

\* whitespace characters a command can hold here: the space and the tab
IsWhitespace(ch) == ch \in {" ", "\t"}
ContainsWhitespace(cmd) == \E i \in DOMAIN cmd : IsWhitespace(cmd[i])

C9_HomonymKilledBeforeSpawn ==
    \A h \in StartHandlers :
        hs[h].old # 0 =>
            /\ hs[h].pc \in {"reap", "spawn"} =>
                  killSent[hs[h].old] /\ processes[hs[h].name] = 0
            /\ hs[h].info # 0 =>
                  /\ killSent[hs[h].old] /\ hs[h].info # hs[h].old
                  /\ processes[hs[h].name] \in {0, hs[h].info}
            /\ (hs[h].pc = "ret" /\ hs[h].result = "ok") =>
                  processes[hs[h].name] = hs[h].info

\* a restart under the same name succeeded
C9_Witness ==
    \E h \in StartHandlers :
        /\ hs[h].pc = "ret" /\ hs[h].result = "ok"
        /\ hs[h].old = 1 /\ hs[h].info = 2 /\ killSent[1]

\* the start handler is past its port check
PastReap(r) == r.pc = "spawn" \/ r.info # 0 \/ r.result = "err_spawn"

\* C10: if a foreign process listens on the health port when start_process
\* is called, the port reaper has run on that port before the spawn; no
\* reaper outcome ends the handler (its results are those of the command
\* check, the spawn and the readiness wait); on success the registered
\* child is the one this call spawned.
C10_ReaperBeforeSpawn ==
    \A h \in StartHandlers :
        /\ (hs[h].squat /\ PastReap(hs[h])) => hs[h].reaped
        /\ hs[h].pc = "ret" =>
              hs[h].result \in {"ok", "err_command", "err_spawn"} \cup ReadinessErrors
        /\ (hs[h].pc = "ret" /\ hs[h].result = "ok") =>
              /\ hs[h].info # 0 /\ Spawned(hs[h].info)
              /\ processes[hs[h].name] = hs[h].info

\* the squatter was evicted and the new child answered the probe
C10_Witness ==
    \E h \in StartHandlers :
        /\ hs[h].pc = "ret" /\ hs[h].result = "ok"
        /\ hs[h].squat /\ hs[h].reaped /\ ~squatter
        /\ hs[h].answered = "child"

KillHandlers == {h \in Handlers : hs[h].tool = "kill_process"}

\* C11: when kill_process(name) returns success for a started child, the
\* child is dead and no process of its tree listens on its service port any
\* more.
C11_KillFreesPort ==
    \A h \in KillHandlers :
        (hs[h].pc = "ret" /\ hs[h].result = "ok" /\ hs[h].target # 0) =>
            /\ os[hs[h].target] = "dead"
            /\ ~listening[hs[h].target]

\* C13: when kill_process(name) returns for a name that was registered at
\* its lookup, the call reports success and the registry has no entry for
\* the name, also when the child outlived the kill and waitDone did not fire
\* within the bounded wait.
C13_NoOrphanEntry ==
    \A h \in KillHandlers :
        (hs[h].pc = "ret" /\ hs[h].info # 0) =>
            /\ processes[hs[h].name] = 0
            /\ hs[h].result = "ok"

\* the child outlived the kill and the 3 s wait, and its entry is gone
C13_Witness ==
    \E h \in KillHandlers :
        /\ hs[h].pc = "ret" /\ hs[h].info # 0
        /\ os[hs[h].info] = "running" /\ graceElapsed[hs[h].info]
        /\ ~waitDone[hs[h].info] /\ processes[hs[h].name] = 0

\* C14 as stated: a kill_process call with a non-empty name never runs the
\* port reaper.
C14_NameNeverReaps ==
    \A h \in KillHandlers : hs[h].name # "" => ~hs[h].reaped

\* C14 amended: with a non-empty name the port argument is not consulted:
\* the first step of the handler is the registry lookup, whatever the port,
\* and leaves every process alone; the call runs the reaper only inside
\* KillProcess, on Windows, on the health port of the registered child, and
\* never when the name is not registered.  A call with neither name nor
\* port returns the argument error and changes nothing.
C14_NamePrecedence ==
    /\ [][\A h \in Handlers :
            ( /\ hs[h].tool = "kill_process" /\ hs[h].pc = "entry"
              /\ hs'[h] # hs[h] )
            => LET n == hs[h].name IN
               /\ (n = "" /\ hs[h].port = 0) =>
                     /\ hs'[h] = [hs[h] EXCEPT !.pc = "ret", !.result = "err_args"]
                     /\ UNCHANGED <<processes, nextChild, envVars, procVars,
                                    logVars, exitVars, killVars>>
               /\ n # "" =>
                     /\ hs'[h] = IF processes[n] # 0
                                 THEN [hs[h] EXCEPT !.pc = "k_signal",
                                         !.after = "killed", !.info = processes[n]]
                                 ELSE [hs[h] EXCEPT !.pc = "ret",
                                         !.result = "err_notfound"]
                     /\ UNCHANGED <<processes, nextChild, envVars, procVars,
                                    logVars, exitVars, killVars>>]_vars
    /\ [](\A h \in KillHandlers :
            hs[h].name # "" =>
               /\ hs[h].outcome = "none"
               /\ hs[h].reaped =>
                     /\ windows /\ hs[h].target # 0
                     /\ extractPortFromURL(ckind[hs[h].target]) > 0)

\* a child was killed by name while the foreign listener on the port given
\* with the call was left alone
C14_Witness ==
    \E h \in KillHandlers :
        /\ hs[h].pc = "ret" /\ hs[h].result = "ok"
        /\ hs[h].name # "" /\ hs[h].port = HealthPort
        /\ squatter /\ ~hs[h].reaped

\* C15: kill_process(name) for a name that is not in the registry returns
\* the not-started-by-this-supervisor result in its one step, which signals
\* no process and leaves the registry and everything else as it was.
C15_UnknownNameNoEffect ==
    [][\A h \in Handlers :
          ( /\ hs[h].tool = "kill_process" /\ hs[h].pc = "entry"
            /\ hs[h].name # "" /\ processes[hs[h].name] = 0
            /\ hs'[h] # hs[h] )
          => /\ hs'[h] = [hs[h] EXCEPT !.pc = "ret", !.result = "err_notfound"]
             /\ UNCHANGED <<processes, nextChild, envVars, procVars, logVars,
                            exitVars, killVars>>]_vars

\* the unknown name was answered while a child of no registry entry was
\* still running
C15_Witness ==
    \E h \in KillHandlers :
        /\ hs[h].pc = "ret" /\ hs[h].result = "err_notfound"
        /\ hs[h].name # "" /\ processes[hs[h].name] = 0
        /\ \E k \in Kids : os[k] = "running" /\ ~hs[h].reaped

\* C16: the reaper called by kill_process(port) succeeds only if it
\* signalled an owner of the port; on a port not in use and when no owning
\* PID is found it returns an error.
C16_ReapSuccessMeansSignalled ==
    \A h \in KillHandlers :
        (hs[h].pc = "ret" /\ hs[h].outcome # "none") =>
            /\ hs[h].result = "ok" => hs[h].outcome = "killed"
            /\ hs[h].outcome \in {"notInUse", "noPid"} => hs[h].result = "err_port"

\* C12: a start_process under a name whose previous child a completed
\* kill_process(name) left behind finds nothing of that child in its way:
\* while the new child exists the name is its own or unregistered, and the
\* old child (same health URL) has its pipes and log channel closed and no
\* longer holds the service port.
C12_RestartFindsNoLeftovers ==
    \A h \in StartHandlers :
        hs[h].info # 0 =>
            /\ processes[hs[h].name] \in {0, hs[h].info}
            /\ \A k \in Kids :
                  ( /\ k # hs[h].info /\ toolKilled[k]
                    /\ cname[k] = hs[h].name /\ ckind[k] = hs[h].kind )
                  => /\ pipesClosed[k] /\ logChanClosed[k]
                     /\ ~listening[k]

\* the lines of child c that reached the combined log
Logged(c) == {LogBuffer[c][i] : i \in DOMAIN LogBuffer[c]}

\* C17 (L1): once the readers of a child have left their loops and the log
\* channel is drained, every line the child wrote is in the combined log or
\* was dropped because the channel was full when it was offered.
C17_NoLineLost ==
    \A c \in Kids :
        (ReadersDone(c) /\ logChan[c] = <<>>) =>
            \A ln \in 1..emitted[c] : ln \in Logged(c) \/ ln \in dropped[c]

\* C18: no producer of log lines blocks: in every reachable state a reader
\* holding a line can take its next step whatever the state of the log
\* channel, and when the channel is full that step drops the line and takes
\* the reader back to its read of the pipe.
C18_ProducerNeverBlocks ==
    /\ [](\A c \in Kids : \A s \in Streams :
            (~crashed /\ rpc[c][s] = "send") => ENABLED ReaderSend(c, s))
    /\ [][\A c \in Kids : \A s \in Streams :
            (/\ rpc[c][s] = "send"
             /\ ~logChanClosed[c]
             /\ Len(logChan[c]) = LogChanCap
             /\ rpc'[c][s] # "send")
            => /\ rpc'[c][s] = "read"
               /\ rline[c][s] \in dropped'[c]
               /\ logChan'[c] = logChan[c]]_vars

\* a reader dropped a line on the full channel and read the pipe again while
\* the child was still running
C18_Witness ==
    \E c \in Kids :
        /\ dropped[c] # {}
        /\ os[c] = "running"
        /\ Len(logChan[c]) = LogChanCap
        /\ \E s \in Streams : rpc[c][s] = "read"

\* handlers of request_with_logs that got the log window of a child
Fetched == {h \in Handlers : /\ hs[h].tool = "request_with_logs"
                             /\ hs[h].pc = "ret" /\ hs[h].info # 0}

\* C19: when request_with_logs fetches the log window of its child, every
\* line it returns was recorded no earlier than 1 s before the request
\* started and no later than 500 ms after the fetch, hence less than 2 s
\* before the start; and a request that starts 2 s or more after the last
\* fetch returns none of the lines that fetch returned.
C19_LogWindow ==
    [][\A h \in Handlers :
        (hs[h].pc = "http" /\ hs'[h].pc = "ret" /\ hs[h].info # 0) =>
            LET c == hs[h].info
                start == hs[h].requestStartTime
                logs == hs'[h].log
            IN  /\ \A k \in DOMAIN logs :
                     \E i \in 0..(maxLogLines - 1) :
                        /\ logLines[c][i] = logs[k]
                        /\ logTimes[c][i] >= start - OneSecond
                        /\ logTimes[c][i] <= now + HalfSecond
                        /\ logTimes[c][i] > start - TwoSeconds
                /\ start >= served.at + TwoSeconds =>
                     \A k \in DOMAIN logs : logs[k] \notin served.lines]_vars

\* a request returned a line although the ring held an older one, recorded
\* more than 1 s before the request started and returned by the request
\* before
C19_Witness ==
    \E h \in Fetched :
        /\ hs[h].log # <<>>
        /\ \E i \in 0..(maxLogLines - 1) :
              /\ logTimes[hs[h].info][i] # 0
              /\ logTimes[hs[h].info][i] < hs[h].requestStartTime - OneSecond
              /\ \A k \in DOMAIN hs[h].log :
                    hs[h].log[k] # logLines[hs[h].info][i]
        /\ served.lines = {hs[h].log[k] : k \in DOMAIN hs[h].log}

\* C20: when the HTTP request of request_with_logs fails in transport, the
\* call returns a result that is not an error, with status code 0 and the
\* error text as its body, and with every line the ring of the associated
\* child holds from 1 s before the request started onwards.
C20_TransportFailureIsResult ==
    [][\A h \in Handlers :
        (hs[h].pc = "http" /\ hs'[h].pc = "ret" /\ hs'[h].status = 0) =>
            /\ hs'[h].result = "ok"
            /\ hs'[h].responseBody = "error"
            /\ hs[h].info # 0 =>
                 \A i \in 0..(maxLogLines - 1) :
                    (/\ logTimes[hs[h].info][i] # 0
                     /\ logTimes[hs[h].info][i] >
                            hs[h].requestStartTime - OneSecond)
                    => \E k \in DOMAIN hs'[h].log :
                          hs'[h].log[k] = logLines[hs[h].info][i]]_vars

\* a request that failed in transport returned with the lines its child
\* wrote meanwhile
C20_Witness ==
    \E h \in Fetched :
        /\ hs[h].status = 0
        /\ hs[h].result = "ok"
        /\ hs[h].log # <<>>

\* handlers of request_with_logs past the construction of the URL
Requesting == {h \in Handlers : /\ hs[h].tool = "request_with_logs"
                                /\ hs[h].pc \in {"http", "ret"}
                                /\ hs[h].result # "err_notfound"}

\* scheme and host:port of the health URL of each shape, as written
HealthBase(kind) ==
    IF kind = "tcp" THEN <<"http", "://", "localhost", ":", "18080">>
    ELSE <<"http", "://", "[::1]">>

\* what follows the host in a URL with a scheme: path, query and fragment
AfterHost(u) ==
    LET k == CHOOSE k \in 3..(Len(u) + 1) :
                /\ \A j \in 3..(k - 1) : u[j] \notin {"/", "?", "#"}
                /\ k <= Len(u) => u[k] \in {"/", "?", "#"}
    IN  SubSeq(u, k, Len(u))

\* C21: the URL a request goes to is the caller's when no child is
\* associated; with a child it is the scheme and host:port of the child's
\* health URL followed by the path, query and fragment of an absolute caller
\* URL, or by the caller's path (with a leading slash) when that is all the
\* caller gave.
C21_OutboundURL ==
    \A h \in Requesting :
        LET u == hs[h].url
            c == hs[h].info
        IN  IF c = 0 THEN hs[h].fullURL = u
            ELSE IF Len(u) >= 2 /\ u[2] = "://"
            THEN hs[h].fullURL = HealthBase(ckind[c]) \o AfterHost(u)
            ELSE hs[h].fullURL = HealthBase(ckind[c])
                                 \o (IF u[1] = "/" THEN u ELSE <<"/">> \o u)

\* a request with an absolute URL to another host, with query and fragment,
\* went to the child's address
C21_Witness ==
    \E h \in Requesting :
        /\ hs[h].info # 0
        /\ hs[h].url[3] = "example.com"
        /\ hs[h].fullURL = <<"http", "://", "localhost", ":", "18080",
                             "/", "api", "?", "q", "#", "f">>

\* the host of a URL with a scheme, as written, and its port, by the scheme
\* when the URL names none
ReqHost(u) == u[3]
ReqPort(u) ==
    IF Len(u) >= 5 /\ u[4] = ":" THEN u[5]
    ELSE IF u[1] = "http" THEN "80" ELSE "443"

\* spellings of the local host
LocalSpellings ==
    {"localhost", "LOCALHOST", "127.0.0.1", "[::1]", "0.0.0.0"}

\* the child's health URL is http://localhost:18080/health, port 18080, or
\* http://[::1]/health, port 80 by its scheme and no health port extracted
ShouldAssociate(c, u) ==
    IF ckind[c] = "tcp" THEN ReqPort(u) = "18080"
    ELSE ReqHost(u) \in LocalSpellings /\ ReqPort(u) = "80"

Started == {h \in Handlers : hs[h].tool = "start_process" /\ hs[h].pc = "ready"}

\* the entry the child finds under a key: the system looks the key up
\* without regard to case on Windows
SameKey(a, b) ==
    a = b \/ (windows /\ {a, b} = {"Path", "PATH"})

\* C23: the environment of a started child is the supervisor's overlaid with
\* the caller's entries: under every caller key the child finds the caller's
\* value, under every other key of the supervisor the supervisor's value,
\* and it has no further entry.
C23_EnvOverlay ==
    \A h \in Started :
        /\ \A e \in hs[h].env :
              \A x \in hs[h].childEnv : SameKey(x.k, e.k) => x.v = e.v
        /\ \A e \in hs[h].env : \E x \in hs[h].childEnv : SameKey(x.k, e.k)
        /\ \A i \in DOMAIN Environ :
              (\A e \in hs[h].env : ~SameKey(e.k, Environ[i].k))
              => Environ[i] \in hs[h].childEnv
        /\ \A x \in hs[h].childEnv :
              \/ x \in hs[h].env
              \/ \E i \in DOMAIN Environ : x = Environ[i]

\* the lines a fetch step of handler h returns
Returned(h) == {hs'[h].log[k] : k \in DOMAIN hs'[h].log}

\* handler h fetches the log window of its child
FetchStep(h) == hs[h].pc = "http" /\ hs'[h].pc = "ret" /\ hs[h].info # 0

\* C24, as stated: a fetch returns a ring line if and only if its time t
\* satisfies start - 1 s <= t < now + 500 ms.
C24_WindowInclusive ==
    [][\A h \in Handlers : FetchStep(h) =>
        \A i \in 0..(maxLogLines - 1) :
            logTimes[hs[h].info][i] # 0 =>
                (logLines[hs[h].info][i] \in Returned(h)
                 <=> /\ hs[h].requestStartTime - OneSecond
                            <= logTimes[hs[h].info][i]
                     /\ logTimes[hs[h].info][i] < now + HalfSecond)]_vars

\* C24, amended: a fetch returns a ring line if and only if its time t
\* satisfies start - 1 s < t < now + 500 ms; a line recorded exactly 1 s
\* before the start is not returned.
C24_WindowExclusive ==
    [][\A h \in Handlers : FetchStep(h) =>
        \A i \in 0..(maxLogLines - 1) :
            logTimes[hs[h].info][i] # 0 =>
                (logLines[hs[h].info][i] \in Returned(h)
                 <=> /\ hs[h].requestStartTime - OneSecond
                            < logTimes[hs[h].info][i]
                     /\ logTimes[hs[h].info][i] < now + HalfSecond)]_vars

\* a fetch left out a line recorded exactly 1 s before its request started
\* and returned a later one
C24_Witness ==
    \E h \in Fetched :
        /\ hs[h].log # <<>>
        /\ \E i \in 0..(maxLogLines - 1) :
              /\ logTimes[hs[h].info][i] = hs[h].requestStartTime - OneSecond
              /\ \A k \in DOMAIN hs[h].log :
                    hs[h].log[k] # logLines[hs[h].info][i]

\* C25: the logs a request returned hold every line its child's ring got
\* from 1 s before the request started up to 500 ms after the response was
\* received (endTime is the time of the fetch plus 500 ms).
C25_WindowCoversLateLines ==
    \A h \in Fetched :
        \A i \in 0..(maxLogLines - 1) :
            (/\ logTimes[hs[h].info][i] # 0
             /\ logTimes[hs[h].info][i] > hs[h].requestStartTime - OneSecond
             /\ logTimes[hs[h].info][i] <= hs[h].endTime)
            => \E k \in DOMAIN hs[h].log :
                  hs[h].log[k] = logLines[hs[h].info][i]

\* the slot visited at step i of a walk back from logIndex - 1
Back(c, i) == (logIndex[c] - 1 - i + maxLogLines) % maxLogLines

\* the step of that walk at which the slot holding a line is visited
AgeOf(c, line) ==
    CHOOSE i \in 0..(maxLogLines - 1) : logLines[c][Back(c, i)] = line

\* C26 (L2): in every state the written slots of a ring, visited backward
\* from logIndex - 1, carry times that never increase, also after the index
\* has wrapped; and a fetch returns its lines oldest first.
C26_RingOrder ==
    /\ [](\A c \in Kids : \A i, j \in 0..(maxLogLines - 1) :
            (/\ i < j
             /\ logTimes[c][Back(c, i)] # 0
             /\ logTimes[c][Back(c, j)] # 0)
            => logTimes[c][Back(c, i)] >= logTimes[c][Back(c, j)])
    /\ [][\A h \in Handlers : FetchStep(h) =>
            \A k, l \in DOMAIN hs'[h].log :
                k < l => AgeOf(hs[h].info, hs'[h].log[k])
                            > AgeOf(hs[h].info, hs'[h].log[l])]_vars

\* a fetch returned the two lines of a ring that had been overwritten, at
\* different times, the older first
C26_Witness ==
    \E h \in Fetched :
        LET c == hs[h].info IN
        /\ Len(LogBuffer[c]) = MaxRingLines
        /\ hs[h].log = SubSeq(LogBuffer[c], 2, 3)
        /\ logIndex[c] = 1
        /\ logTimes[c][1] < logTimes[c][0]

\* the lines of a ring in the order they were written
RingSeq(c) ==
    LET n == Len(LogBuffer[c])
        m == IF n < maxLogLines THEN n ELSE maxLogLines
    IN  [k \in 1..m |-> logLines[c][Back(c, m - k)]]

\* C27: in every state the lines of a ring, in the order they were written,
\* are the last min(n, R) lines of the combined log, n being its length and
\* R the number of slots; and 0 <= logIndex < R.
C27_RingMirrorsLog ==
    \A c \in Kids :
        LET n == Len(LogBuffer[c])
            m == IF n < maxLogLines THEN n ELSE maxLogLines
        IN  /\ RingSeq(c) = SubSeq(LogBuffer[c], n - m + 1, n)
            /\ logIndex[c] >= 0
            /\ logIndex[c] < maxLogLines

\* a ring that was overwritten: the combined log is longer than the ring
C27_Witness ==
    \E c \in Kids :
        /\ Len(LogBuffer[c]) > maxLogLines
        /\ logIndex[c] = Len(LogBuffer[c]) % maxLogLines

\* C28: in every state the lines of a combined log that the child wrote to
\* one stream stand in the order in which it wrote them, each once, whatever
\* the readers did and whichever lines were dropped.
C28_PipeOrder ==
    \A c \in Kids : \A i, j \in DOMAIN LogBuffer[c] :
        (i < j /\ origin[c][LogBuffer[c][i]] = origin[c][LogBuffer[c][j]])
        => LogBuffer[c][i] < LogBuffer[c][j]

\* two lines of one stream are in the combined log and a line was dropped
C28_Witness ==
    \E c \in Kids :
        /\ Len(LogBuffer[c]) >= 2
        /\ origin[c][LogBuffer[c][1]] = origin[c][LogBuffer[c][2]]
        /\ dropped[c] # {}

\* C29: the exit watcher of a child goes through its steps in one order: past
\* the OS wait the child is gone, waitDone is released and the pipes are
\* closed; past its wait for the readers the readers are done and logChan is
\* closed; and only a watcher that has done all this has sent the wait
\* result, so ExitChan holds a value only when waitDone is released and
\* logChan is closed.
C29_WatcherOrder ==
    /\ [](\A c \in Kids :
            /\ wpc[c] \in {"await", "deliver", "done"} =>
                  /\ os[c] = "dead" /\ waitCalls[c] = 1
                  /\ waitDone[c] /\ pipesClosed[c]
            /\ wpc[c] \in {"deliver", "done"} =>
                  /\ logChanClosed[c]
                  /\ timely => \A s \in Streams : rpc[c][s] = "done"
            /\ ExitChan[c] # "empty" =>
                  wpc[c] = "done" /\ waitDone[c] /\ logChanClosed[c])
    /\ [][\A c \in Kids :
            /\ wpc'[c] # wpc[c] =>
                  <<wpc[c], wpc'[c]>> \in {<<"off", "wait">>, <<"wait", "await">>,
                                           <<"await", "deliver">>,
                                           <<"deliver", "done">>}
            /\ (ExitChan[c] = "empty" /\ ExitChan'[c] # "empty") =>
                  /\ wpc[c] = "deliver" /\ wpc'[c] = "done"
                  /\ ExitChan'[c] = exitErr[c]]_vars

\* a watcher delivered the wait result of its child
C29_Witness ==
    \E c \in Kids :
        /\ ExitChan[c] # "empty"
        /\ wpc[c] = "done"
        /\ waitDone[c] /\ pipesClosed[c] /\ logChanClosed[c]

\* C30: the exit watcher alone closes logChan and sets logChanClosed: the flag
\* of a child goes up only in the watcher's closing step, never in a step of
\* the terminate path, and once up it stays up (the channel is closed once).
C30_SoleCloser ==
    [][\A c \in Kids :
          /\ logChanClosed[c] => logChanClosed'[c]
          /\ (~logChanClosed[c] /\ logChanClosed'[c]) =>
                /\ wpc[c] = "await" /\ wpc'[c] = "deliver"
                /\ \A h \in Handlers : hs[h].pc # "k_chan"]_vars

\* C30 as amended: logChan is closed by whichever of the exit watcher and
\* KillProcess comes to its closing step first, and by nobody else: the flag
\* goes up only in one of these two steps, stays up, and is up exactly when
\* the channel was closed, which happens at most once per child.
C30_ClosedOnce ==
    /\ [](\A c \in Kids :
            /\ closes[c] <= 1
            /\ logChanClosed[c] <=> closes[c] = 1)
    /\ [][\A c \in Kids :
            /\ logChanClosed[c] => logChanClosed'[c]
            /\ (~logChanClosed[c] /\ logChanClosed'[c]) =>
                  \/ wpc[c] = "await" /\ wpc'[c] = "deliver"
                  \/ \E h \in Handlers :
                        /\ hs[h].pc = "k_chan" /\ hs[h].target = c
                        /\ hs'[h].pc # "k_chan"]_vars

\* KillProcess and the exit watcher both went through their closing step for
\* one child
C30_Witness ==
    \E c \in Kids :
        /\ toolKilled[c]
        /\ wpc[c] = "done"
        /\ logChanClosed[c]
        /\ closes[c] = 1

\* C31: ExitChan is single-shot: a value appears on it only in the sending
\* step of the child's watcher, it is the result of the wait (nil or the
\* error) of a child that is gone, and a watcher that has sent never sends
\* again; the sending step can always be taken, whether or not a readiness
\* wait is receiving.
C31_ExitSignalSingleShot ==
    /\ [](\A c \in Kids :
            /\ (~crashed /\ wpc[c] = "deliver") => ENABLED WatcherDeliver(c)
            /\ ExitChan[c] # "empty" =>
                  /\ os[c] = "dead"
                  /\ ExitChan[c] = exitErr[c]
                  /\ ExitChan[c] \in {"nil", "err"})
    /\ [][\A c \in Kids :
            /\ (ExitChan'[c] # ExitChan[c] /\ ExitChan'[c] # "empty") =>
                  /\ ExitChan[c] = "empty"
                  /\ wpc[c] = "deliver" /\ wpc'[c] = "done"
            /\ wpc[c] = "done" =>
                  /\ wpc'[c] = "done"
                  /\ ExitChan'[c] \in {ExitChan[c], "empty"}]_vars

\* the watcher delivered the result of a child whose start_process handler
\* had already returned: nobody was receiving
C31_Witness ==
    \E c \in Kids :
        /\ ExitChan[c] # "empty"
        /\ wpc[c] = "done"
        /\ \A h \in Handlers : hs[h].pc = "wait"

\* C32: under the scheduler's fairness every handler that has taken the
\* token returns and puts it back, whatever the child does: whenever the
\* semaphore is empty it is full again later, with every handler back at its
\* entry.
C32_HandlersReturn ==
    (toolSemaphore = 0) ~>
        (toolSemaphore = 1 /\ \A h \in Handlers : hs[h].pc = "wait")

\* a handler returns from terminating a child that outlived the kill signal:
\* the wait for waitDone ended on its timer
C32_Witness ==
    \E h \in Handlers :
        /\ hs[h].pc = "ret"
        /\ hs[h].target # 0
        /\ os[hs[h].target] = "running"
        /\ killSent[hs[h].target] /\ graceElapsed[hs[h].target]
        /\ ~waitDone[hs[h].target]

\* C33: once the root context is cancelled, no handler stays in the
\* readiness wait or blocked in the acquire of the semaphore while time
\* passes: it leaves the wait before the next instant.
C33_CancelObserved ==
    [][(cancelled /\ now' > now) =>
          \A h \in Handlers : hs[h].pc \notin {"ready", "acquire"}]_vars

\* C34: the four goroutines of a child that is gone come to their end: both
\* readers, the exit watcher and the merge writer.  A dead child stays dead
\* and a goroutine that is done stays done, so this is: from some moment on,
\* every dead child has its four goroutines done.  The merge writer ends
\* only on the closed and empty channel, and a line leaves the channel only
\* into the combined log and the ring.
C34_TasksTerminate ==
    /\ <>[](\A c \in Kids :
              os[c] = "dead" =>
                  /\ \A s \in Streams : rpc[c][s] = "done"
                  /\ wpc[c] = "done"
                  /\ mpc[c] = "done")
    /\ [](\A c \in Kids :
            /\ mpc[c] = "done" => logChanClosed[c] /\ logChan[c] = <<>>
            /\ wpc[c] = "done" => waitDone[c] /\ logChanClosed[c])
    /\ [][\A c \in Kids :
            /\ os[c] = "dead" => os'[c] = "dead"
            /\ wpc[c] = "done" => wpc'[c] = "done"
            /\ mpc[c] = "done" => mpc'[c] = "done"
            /\ \A s \in Streams : rpc[c][s] = "done" => rpc'[c][s] = "done"
            /\ (logChan'[c] # logChan[c] /\ Len(logChan'[c]) < Len(logChan[c])) =>
                  /\ logChan'[c] = Tail(logChan[c])
                  /\ LogBuffer'[c] = Append(LogBuffer[c], Head(logChan[c]))
                  /\ logLines'[c][logIndex[c]] = Head(logChan[c])]_vars

\* the four goroutines of a dead child are done, and the merge writer wrote
\* a line
C34_Witness ==
    \E c \in Kids :
        /\ os[c] = "dead"
        /\ \A s \in Streams : rpc[c][s] = "done"
        /\ wpc[c] = "done" /\ mpc[c] = "done"
        /\ LogBuffer[c] # <<>>

\* C35: no reader sends on logChan after it was closed: whenever a reader
\* takes the step that offers its line, the channel is open, and the
\* supervisor never dies of a send on a closed channel.
C35_NoSendOnClosed ==
    /\ [](~crashed)
    /\ [][\A c \in Kids : \A s \in Streams :
            (rpc[c][s] = "send" /\ rpc'[c][s] # "send") => ~logChanClosed[c]]_vars

\* C36: the combined log is never read while the merge writer is appending
\* to it: in no state can a start_process handler take its log snapshot (on
\* success, or on its return after a readiness failure) while the merge
\* writer of the same child can take a write, the two steps being ordered by
\* nothing.
C36_SnapshotNotDuringWrite ==
    [](\A h \in Handlers :
          /\ (hs[h].pc = "ready" /\ ENABLED ReadyProbe(h)) =>
                ~ENABLED MergeWrite(hs[h].info)
          /\ (hs[h].pc = "k_chan" /\ hs[h].after = "fail"
              /\ ENABLED KillCloseChan(h)) =>
                ~ENABLED MergeWrite(hs[h].info))

\* C37: the registry entry of a name changes only in a step of KillProcess
\* or StartProcess called for that name, so a child that exits on its own
\* stays registered, and request_with_logs by name and the association by
\* URL find every registered child, dead or not; the combined log and the
\* ring of a child change only when its own merge writer takes a line from
\* its own channel, and the log only grows.
C37_RegistryFrame ==
    /\ [](\A n \in Names :
            processes[n] # 0 =>
                processes[n] \in FindProcessByURL(HealthCheckURL(ckind[processes[n]])))
    /\ [][/\ \A n \in Names :
               processes'[n] # processes[n] =>
                   \E h \in Handlers :
                       /\ hs[h].name = n
                       /\ hs[h].pc \in {"k_chan", "spawn"}
                       /\ hs'[h].pc # hs[h].pc
          /\ \A h \in Handlers :
               (/\ hs[h].tool = "request_with_logs" /\ hs[h].pc = "entry"
                /\ hs[h].name # "" /\ processes[hs[h].name] # 0
                /\ hs'[h].pc # "entry") =>
                   hs'[h].pc = "http" /\ hs'[h].info = processes[hs[h].name]
          /\ \A c \in Kids :
               /\ IsPrefix(LogBuffer[c], LogBuffer'[c])
               /\ (\/ LogBuffer'[c] # LogBuffer[c] \/ logLines'[c] # logLines[c]
                   \/ logTimes'[c] # logTimes[c] \/ logIndex'[c] # logIndex[c]) =>
                      /\ mpc[c] = "run" /\ logChan[c] # <<>>
                      /\ logChan'[c] = Tail(logChan[c])
                      /\ LogBuffer'[c] = Append(LogBuffer[c], Head(logChan[c]))]_vars

\* the name was started twice: the old child wrote a line and was cleared,
\* the new child exited on its own, is still registered, and a
\* request_with_logs by name was served from it
C37_Witness ==
    /\ cname[1] \in Names /\ cname[2] = cname[1]
    /\ processes[cname[1]] = 2
    /\ LogBuffer[1] # <<>> /\ LogBuffer[2] = <<>>
    /\ os[2] = "dead" /\ ~killSent[2]
    /\ \E h \in Handlers :
          /\ hs[h].tool = "request_with_logs" /\ hs[h].pc = "ret"
          /\ hs[h].info = 2

RECURSIVE FullScan(_, _, _, _, _)
FullScan(c, startTime, endTime, i, logs) ==
    IF i >= maxLogLines THEN logs
    ELSE LET idx == Back(c, i)
         IN  FullScan(c, startTime, endTime, i + 1,
                      IF logTimes[c][idx] # 0
                         /\ InWindow(logTimes[c][idx], startTime, endTime)
                      THEN Prepend(logLines[c][idx], logs) ELSE logs)

\* the start times a window is asked for
StartTimes == 0..(MaxCutTime + TwoSeconds + 1)

\* C39: the early stop of the walk never changes the result: in every state
\* of every ring, also after the index has wrapped, and for every start time,
\* the window is what the walk over all slots with the same test gives; and
\* so is the window that a fetch returns.
C39_CutOffHarmless ==
    /\ [](\A c \in Kids : \A startTime \in StartTimes :
            GetRequestLog(c, startTime)
                = FullScan(c, startTime, now + HalfSecond, 0, <<>>))
    /\ [][\A h \in Handlers : (FetchStep(h) /\ hs[h].info # 0) =>
            hs'[h].log = FullScan(hs[h].info, hs[h].requestStartTime,
                                  now + HalfSecond, 0, <<>>)]_vars

\* a fetch on a ring that had been overwritten stopped at the newest slot,
\* whose line was older than 2 s before the request
C39_Witness ==
    \E h \in Fetched :
        LET c == hs[h].info IN
        /\ Len(LogBuffer[c]) = MaxRingLines
        /\ logTimes[c][Back(c, 0)] # 0
        /\ logTimes[c][Back(c, 0)] < hs[h].requestStartTime - TwoSeconds
        /\ logTimes[c][Back(c, 1)] # 0
        /\ hs[h].log = <<>>

\* C40: the tool semaphore holds 0 or 1 tokens, and 0 exactly while one
\* handler is between its acquire and its release; a handler takes the token
\* exactly when it enters and puts it back exactly when it returns, whatever
\* its result; no other step of a handler, of StartProcess, of KillProcess or
\* of the port reaper touches the token; so the release of a handler that
\* returns finds the slot empty and never blocks.
C40_SemaphoreDiscipline ==
    /\ [](/\ toolSemaphore \in {0, 1}
          /\ toolSemaphore = 0 <=> \E h \in Handlers : hs[h].pc # "wait"
          /\ \A h \in Handlers : hs[h].pc = "ret" => toolSemaphore = 0)
    /\ [][\A h \in Handlers :
            /\ (hs[h].pc = "wait" /\ hs'[h].pc # "wait") =>
                   (toolSemaphore = 1 /\ toolSemaphore' = 0 /\ hs'[h].pc = "entry")
            /\ (hs[h].pc # "wait" /\ hs'[h].pc = "wait") =>
                   (hs[h].pc = "ret" /\ toolSemaphore = 0 /\ toolSemaphore' = 1)
            /\ (hs[h].pc # "wait" /\ hs'[h].pc # "wait") =>
                   toolSemaphore' = toolSemaphore]_vars

\* a kill_process call returns an error, holding the token, after an earlier
\* start_process call has spawned a child and released
C40_Witness ==
    /\ hs[1].pc = "ret" /\ hs[1].tool = "kill_process" /\ hs[1].result # "ok"
    /\ nextChild = 2
    /\ toolSemaphore = 0

====
